---- MODULE Spec2Model ----
(***************************************************************************)
(* Map-table construction (db/map_builder.cc) and the table reader cache   *)
(* (db/table_cache.cc) of the storage engine.                              *)
(*                                                                         *)
(* Spec is the partitioner PartitionRangeWithDepend run one loop iteration *)
(* per step on two sorted, non-overlapping interval vectors.               *)
(***************************************************************************)
EXTENDS Integers, Sequences, FiniteSets, Bags, TLC

(***************************************************************************)
(* Internal keys.  An internal key is a user key followed by a footer that *)
(* packs a sequence number and an 8-bit value type.  The 56-bit sequence   *)
(* number is kept to 16 bits, which TLC's integers hold with the type byte *)
(* below it: kMaxSequenceNumber is 2^16 - 1, all ones as in the code.      *)
(***************************************************************************)
kMaxSequenceNumber == 65535
kTypeDeletion == 0

\* InternalKey::Set(user_key, sequence, type)
InternalKey(u, s, t) == [uk |-> u, seq |-> s, type |-> t]

\* A default-constructed InternalKey (empty representation).
EmptyKey == InternalKey(0, 0, 0)

\* The 8-byte footer: (sequence << 8) | type.
ExtractInternalKeyFooter(k) == k.seq * 256 + k.type

GetInternalKeySeqno(k) == k.seq

\* InternalKeyComparator::Compare: user key ascending, then footer descending.
Compare(a, b) ==
    IF a.uk < b.uk THEN -1
    ELSE IF a.uk > b.uk THEN 1
    ELSE IF ExtractInternalKeyFooter(a) > ExtractInternalKeyFooter(b) THEN -1
    ELSE IF ExtractInternalKeyFooter(a) < ExtractInternalKeyFooter(b) THEN 1
    ELSE 0

(***************************************************************************)
(* RangeWithDepend: point[0..1], include[0..1], no_records, stable and the *)
(* list of link targets {file_number, size}.                               *)
(***************************************************************************)
LinkTarget(n, sz) == [file_number |-> n, size |-> sz]

Pair(x, y) == [i \in 0..1 |-> IF i = 0 THEN x ELSE y]

\* RangeWithDepend() = default, value-initialized by emplace_back().
DefaultRange ==
    [point |-> Pair(EmptyKey, EmptyKey), include |-> Pair(FALSE, FALSE),
     no_records |-> FALSE, stable |-> FALSE, dependence |-> <<>>]

IsEmptyMapSstElement(range) ==
    IF Len(range.dependence) # 1 THEN FALSE
    ELSE IF range.point[0].uk # range.point[1].uk THEN FALSE
    ELSE range.point[1].seq = kMaxSequenceNumber

\* Mutant of CompInclude: at equal keys a right bound orders before the
\* left bound at the same position (')' before '[', ']' before '(').
CompInclude_LeaveFirst(c, ab, ai, bb, bi) ==
    IF c # 0 THEN c
    ELSE CASE <<ab, ai, bb, bi>> = <<0, TRUE, 0, FALSE>> -> -1
           [] <<ab, ai, bb, bi>> = <<0, TRUE, 1, FALSE>> -> 1
           [] <<ab, ai, bb, bi>> = <<0, FALSE, 1, TRUE>> -> 1
           [] <<ab, ai, bb, bi>> = <<1, FALSE, 1, TRUE>> -> -1
           [] <<ab, ai, bb, bi>> = <<1, FALSE, 0, FALSE>> -> -1
           [] <<ab, ai, bb, bi>> = <<0, TRUE, 1, TRUE>> -> -1
           [] <<ab, ai, bb, bi>> = <<0, FALSE, 0, TRUE>> -> 1
           [] <<ab, ai, bb, bi>> = <<1, FALSE, 0, TRUE>> -> -1
           [] <<ab, ai, bb, bi>> = <<1, TRUE, 0, FALSE>> -> -1
           [] <<ab, ai, bb, bi>> = <<1, TRUE, 1, FALSE>> -> 1
           [] <<ab, ai, bb, bi>> = <<0, FALSE, 1, FALSE>> -> 1
           [] <<ab, ai, bb, bi>> = <<1, TRUE, 0, TRUE>> -> 1
           [] OTHER -> 0

\* ab/bb: 0 = left bound, 1 = right bound; ai/bi: the bound is inclusive.
CompInclude(c, ab, ai, bb, bi) ==
    IF c # 0 THEN c
    ELSE CASE <<ab, ai, bb, bi>> = <<0, TRUE, 0, FALSE>> -> -1
           [] <<ab, ai, bb, bi>> = <<0, TRUE, 1, FALSE>> -> -1
           [] <<ab, ai, bb, bi>> = <<0, FALSE, 1, TRUE>> -> -1
           [] <<ab, ai, bb, bi>> = <<1, FALSE, 1, TRUE>> -> -1
           [] <<ab, ai, bb, bi>> = <<1, FALSE, 0, FALSE>> -> -1
           [] <<ab, ai, bb, bi>> = <<0, TRUE, 1, TRUE>> -> -1
           [] <<ab, ai, bb, bi>> = <<0, FALSE, 0, TRUE>> -> 1
           [] <<ab, ai, bb, bi>> = <<1, FALSE, 0, TRUE>> -> 1
           [] <<ab, ai, bb, bi>> = <<1, TRUE, 0, FALSE>> -> 1
           [] <<ab, ai, bb, bi>> = <<1, TRUE, 1, FALSE>> -> 1
           [] <<ab, ai, bb, bi>> = <<0, FALSE, 1, FALSE>> -> 1
           [] <<ab, ai, bb, bi>> = <<1, TRUE, 0, TRUE>> -> 1
           [] OTHER -> 0

(***************************************************************************)
(* PartitionRangeWithDepend.  The three lambdas capture by reference the   *)
(* two input vectors, the partition type, the output vector and the        *)
(* pointer `source`; s is that captured state.  A pointer to a range is    *)
(* <<side, index>>, nullptr is <<"null", 0>>.                              *)
(***************************************************************************)
kMerge == "kMerge"
kDelete == "kDelete"

nullptr == <<"null", 0>>
PtrA(i) == <<"a", i>>
PtrB(i) == <<"b", i>>
Deref(s, p) == IF p[1] = "a" THEN s.ranges_a[p[2] + 1] ELSE s.ranges_b[p[2] + 1]

Back(s) == s.output[Len(s.output)]
PopBack(out) == SubSeq(out, 1, Len(out) - 1)
SetBack(out, r) == [out EXCEPT ![Len(out)] = r]
Fault(s, f) == IF s.fault = "none" THEN f ELSE s.fault

put_left(s, key, include, r) ==
    LET ok == \/ s.output = <<>>
              \/ Compare(Back(s).point[1], key) < 0
              \/ ~Back(s).include[1]
              \/ ~include
        back == [DefaultRange EXCEPT !.point[0] = key, !.include[0] = include]
    IN  [s EXCEPT !.output = Append(s.output, back),
                  !.source = r,
                  !.fault = IF ok THEN s.fault ELSE Fault(s, "assert_put_left")]

\* Mutant of put_right: an interval whose endpoints collapse is dropped even
\* when both ends are inclusive (the single point [k,k] is lost).
put_right_DropPoint(s, key, include, r) ==
    LET back == Back(s)
    IN  IF back.dependence = <<>> \/ Compare(key, back.point[0]) = 0
        THEN [s EXCEPT !.output = PopBack(s.output)]
        ELSE
        LET b1 == [back EXCEPT !.point[1] = key, !.include[1] = include]
            unstable == s.source = nullptr \/ r = nullptr \/ s.source # r
        IN  IF IsEmptyMapSstElement(b1)
            THEN [s EXCEPT !.output = PopBack(s.output)]
            ELSE [s EXCEPT !.output = SetBack(s.output,
                                IF unstable THEN [b1 EXCEPT !.stable = FALSE]
                                ELSE b1)]

\* Mutant of put_right: an interval whose endpoints collapse with an
\* exclusive end is kept.
put_right_KeepEmpty(s, key, include, r) ==
    LET back == Back(s)
    IN  IF back.dependence = <<>>
        THEN [s EXCEPT !.output = PopBack(s.output)]
        ELSE
        LET b1 == [back EXCEPT !.point[1] = key, !.include[1] = include]
            unstable == s.source = nullptr \/ r = nullptr \/ s.source # r
        IN  IF IsEmptyMapSstElement(b1)
            THEN [s EXCEPT !.output = PopBack(s.output)]
            ELSE [s EXCEPT !.output = SetBack(s.output,
                                IF unstable THEN [b1 EXCEPT !.stable = FALSE]
                                ELSE b1)]

\* Mutant of put_right: stable is not cleared when the interval does not
\* end where its source range ends.
put_right_KeepStable(s, key, include, r) ==
    LET back == Back(s)
    IN  IF \/ back.dependence = <<>>
           \/ /\ Compare(key, back.point[0]) = 0
              /\ (~back.include[0] \/ ~include)
        THEN [s EXCEPT !.output = PopBack(s.output)]
        ELSE
        LET b1 == [back EXCEPT !.point[1] = key, !.include[1] = include]
        IN  IF IsEmptyMapSstElement(b1)
            THEN [s EXCEPT !.output = PopBack(s.output)]
            ELSE [s EXCEPT !.output = SetBack(s.output, b1)]

put_right(s, key, include, r) ==
    IF s.output = <<>> THEN [s EXCEPT !.fault = Fault(s, "back_of_empty")]
    ELSE
    LET back == Back(s)
    IN  IF \/ back.dependence = <<>>
           \/ /\ Compare(key, back.point[0]) = 0
              /\ (~back.include[0] \/ ~include)
        THEN [s EXCEPT !.output = PopBack(s.output)]
        ELSE
        LET b1 == [back EXCEPT !.point[1] = key, !.include[1] = include]
            ok == Compare(b1.point[0], b1.point[1]) <= 0
            s1 == [s EXCEPT !.fault = IF ok THEN s.fault
                                      ELSE Fault(s, "assert_put_right")]
            unstable == s.source = nullptr \/ r = nullptr \/ s.source # r
        IN  IF IsEmptyMapSstElement(b1)
            THEN \* pop_back() destroys `back`; the write below then goes
                 \* through a dangling reference.
                 [s1 EXCEPT !.output = PopBack(s.output),
                            !.fault = IF unstable THEN Fault(s1, "dangling_write")
                                      ELSE s1.fault]
            ELSE [s1 EXCEPT !.output = SetBack(s.output,
                                IF unstable THEN [b1 EXCEPT !.stable = FALSE]
                                ELSE b1)]

\* Mutant of put_depend: MERGE puts B's links before A's.
put_depend_BFirst(s, a, b) ==
    LET back == Back(s)
        ra == Deref(s, a)
        rb == Deref(s, b)
        nb == IF s.type = kMerge
              THEN IF a # nullptr
                   THEN IF b # nullptr
                        THEN [back EXCEPT !.stable = FALSE,
                                          !.dependence = rb.dependence \o ra.dependence]
                        ELSE [back EXCEPT !.no_records = ra.no_records,
                                          !.stable = ra.stable,
                                          !.dependence = ra.dependence]
                   ELSE [back EXCEPT !.no_records = rb.no_records,
                                     !.stable = rb.stable,
                                     !.dependence = rb.dependence]
              ELSE IF b = nullptr
                   THEN [back EXCEPT !.no_records = ra.no_records,
                                     !.stable = ra.stable,
                                     !.dependence = ra.dependence]
                   ELSE back
    IN  [s EXCEPT !.output = SetBack(s.output, nb)]

\* Mutant of put_depend: DELETE gives an interval under a mask the links of A.
put_depend_MaskIgnored(s, a, b) ==
    LET back == Back(s)
        ra == Deref(s, a)
        rb == Deref(s, b)
        nb == IF s.type = kMerge
              THEN IF a # nullptr
                   THEN IF b # nullptr
                        THEN [back EXCEPT !.stable = FALSE,
                                          !.dependence = ra.dependence \o rb.dependence]
                        ELSE [back EXCEPT !.no_records = ra.no_records,
                                          !.stable = ra.stable,
                                          !.dependence = ra.dependence]
                   ELSE [back EXCEPT !.no_records = rb.no_records,
                                     !.stable = rb.stable,
                                     !.dependence = rb.dependence]
              ELSE IF a # nullptr
                   THEN [back EXCEPT !.no_records = ra.no_records,
                                     !.stable = ra.stable,
                                     !.dependence = ra.dependence]
                   ELSE back
    IN  [s EXCEPT !.output = SetBack(s.output, nb)]

put_depend(s, a, b) ==
    LET back == Back(s)
        ra == Deref(s, a)
        rb == Deref(s, b)
        nb == IF s.type = kMerge
              THEN IF a # nullptr
                   THEN IF b # nullptr
                        THEN [back EXCEPT !.stable = FALSE,
                                          !.dependence = ra.dependence \o rb.dependence]
                        ELSE [back EXCEPT !.no_records = ra.no_records,
                                          !.stable = ra.stable,
                                          !.dependence = ra.dependence]
                   ELSE [back EXCEPT !.no_records = rb.no_records,
                                     !.stable = rb.stable,
                                     !.dependence = rb.dependence]
              ELSE IF b = nullptr
                   THEN [back EXCEPT !.no_records = ra.no_records,
                                     !.stable = ra.stable,
                                     !.dependence = ra.dependence]
                   ELSE back
        ok == /\ (a # nullptr \/ b # nullptr)
              /\ (s.type = kMerge => nb.dependence # <<>>)
              /\ (s.type = kDelete /\ b # nullptr => rb.dependence = <<>>)
    IN  [s EXCEPT !.output = SetBack(s.output, nb),
                  !.fault = IF ok THEN s.fault ELSE Fault(s, "assert_put_depend")]

\* Mutant of the comparison: the keys alone, the kinds and the inclusivity
\* of the endpoints left out.
SweepCompare_KeysOnly(s) ==
    IF s.ai < Len(s.ranges_a) /\ s.bi < Len(s.ranges_b)
    THEN Compare(s.ranges_a[s.ai + 1].point[s.ab], s.ranges_b[s.bi + 1].point[s.bb])
    ELSE IF s.ai < Len(s.ranges_a) THEN -1 ELSE 1

\* The comparison at the head of the loop body.
SweepCompare(s) ==
    IF s.ai < Len(s.ranges_a) /\ s.bi < Len(s.ranges_b)
    THEN LET ra == s.ranges_a[s.ai + 1]
             rb == s.ranges_b[s.bi + 1]
         IN  CompInclude(Compare(ra.point[s.ab], rb.point[s.bb]),
                         s.ab, ra.include[s.ab], s.bb, rb.include[s.bb])
    ELSE IF s.ai < Len(s.ranges_a) THEN -1 ELSE 1

\* Mutant of the switch: where one range begins inside the other, the
\* interval that ends there gets the beginning range's inclusivity unflipped.
SweepSwitch_NoFlip(s, ac, bc) ==
    LET a == PtrA(s.ai)
        b == PtrB(s.bi)
        ak == s.ranges_a[s.ai + 1].point[s.ab]
        an == s.ranges_a[s.ai + 1].include[s.ab]
        bk == s.ranges_b[s.bi + 1].point[s.bb]
        bn == s.ranges_b[s.bi + 1].include[s.bb]
        k == <<s.ab, s.bb, ac, bc>>
    IN  CASE k = <<0, 0, 1, 0>> -> put_depend(put_left(s, ak, an, a), a, nullptr)
          [] k = <<1, 0, 1, 0>> -> put_right(s, ak, an, a)
          [] k = <<0, 0, 0, 1>> -> put_depend(put_left(s, bk, bn, b), nullptr, b)
          [] k = <<0, 1, 0, 1>> -> put_right(s, bk, bn, b)
          [] k = <<1, 0, 0, 1>> ->
               put_depend(put_left(put_right(s, bk, bn, nullptr), bk, bn, b), a, b)
          [] k = <<1, 1, 0, 1>> ->
               put_depend(put_left(put_right(s, bk, bn, b), bk, ~bn, nullptr),
                          a, nullptr)
          [] k = <<0, 1, 1, 0>> ->
               put_depend(put_left(put_right(s, ak, an, nullptr), ak, an, a), a, b)
          [] k = <<1, 1, 1, 0>> ->
               put_depend(put_left(put_right(s, ak, an, a), ak, ~an, nullptr),
                          nullptr, b)
          [] k = <<0, 0, 1, 1>> -> put_depend(put_left(s, ak, an, nullptr), a, b)
          [] k = <<1, 1, 1, 1>> -> put_right(s, ak, an, nullptr)
          [] OTHER -> [s EXCEPT !.fault = Fault(s, "assert_false")]

\* The switch of the loop body.
SweepSwitch(s, ac, bc) ==
    LET a == PtrA(s.ai)
        b == PtrB(s.bi)
        ak == s.ranges_a[s.ai + 1].point[s.ab]
        an == s.ranges_a[s.ai + 1].include[s.ab]
        bk == s.ranges_b[s.bi + 1].point[s.bb]
        bn == s.ranges_b[s.bi + 1].include[s.bb]
        k == <<s.ab, s.bb, ac, bc>>
    IN  CASE k = <<0, 0, 1, 0>> -> put_depend(put_left(s, ak, an, a), a, nullptr)
          [] k = <<1, 0, 1, 0>> -> put_right(s, ak, an, a)
          [] k = <<0, 0, 0, 1>> -> put_depend(put_left(s, bk, bn, b), nullptr, b)
          [] k = <<0, 1, 0, 1>> -> put_right(s, bk, bn, b)
          [] k = <<1, 0, 0, 1>> ->
               put_depend(put_left(put_right(s, bk, ~bn, nullptr), bk, bn, b), a, b)
          [] k = <<1, 1, 0, 1>> ->
               put_depend(put_left(put_right(s, bk, bn, b), bk, ~bn, nullptr),
                          a, nullptr)
          [] k = <<0, 1, 1, 0>> ->
               put_depend(put_left(put_right(s, ak, ~an, nullptr), ak, an, a), a, b)
          [] k = <<1, 1, 1, 0>> ->
               put_depend(put_left(put_right(s, ak, an, a), ak, ~an, nullptr),
                          nullptr, b)
          [] k = <<0, 0, 1, 1>> -> put_depend(put_left(s, ak, an, nullptr), a, b)
          [] k = <<1, 1, 1, 1>> -> put_right(s, ak, an, nullptr)
          [] OTHER -> [s EXCEPT !.fault = Fault(s, "assert_false")]

\* One iteration of the do-while loop.
SweepBody(s) ==
    LET c == SweepCompare(s)
        ac == IF c <= 0 THEN 1 ELSE 0
        bc == IF c >= 0 THEN 1 ELSE 0
        s1 == SweepSwitch(s, ac, bc)
    IN  [s1 EXCEPT !.ai = s.ai + (s.ab + ac) \div 2,
                   !.bi = s.bi + (s.bb + bc) \div 2,
                   !.ab = (s.ab + ac) % 2,
                   !.bb = (s.bb + bc) % 2]

SweepMore(s) == s.ai # Len(s.ranges_a) \/ s.bi # Len(s.ranges_b)

SweepStart(a, b, t) ==
    [ranges_a |-> a, ranges_b |-> b, type |-> t, output |-> <<>>,
     source |-> nullptr, fault |-> "none", ai |-> 0, bi |-> 0, ab |-> 0, bb |-> 0]

RECURSIVE SweepRun(_)
SweepRun(s) ==
    LET s1 == SweepBody(s) IN IF SweepMore(s1) THEN SweepRun(s1) ELSE s1

PartitionRangeWithDepend(a, b, t) == SweepRun(SweepStart(a, b, t)).output

\* The fault, if any, the partition of a and b runs into.
PartitionFault(a, b, t) == SweepRun(SweepStart(a, b, t)).fault

(***************************************************************************)
(* Inputs of the partitioner.  A vector handed to PartitionRangeWithDepend *)
(* is sorted and pairwise non-overlapping, every interval is non-empty,    *)
(* and a key carrying kMaxSequenceNumber occurs only as an exclusive lower *)
(* or an inclusive upper endpoint: the constructors of RangeWithDepend     *)
(* build no other, and the partitioner preserves it.                       *)
(***************************************************************************)
MaxLen == 2

\* The keys of the model in internal-key order: 1@5, 1@3, 2@max, 2@5
\* (type 1 is a value, kTypeDeletion with kMaxSequenceNumber the sentinel).
KeySpace ==
    << InternalKey(1, 5, 1), InternalKey(1, 3, 1),
       InternalKey(2, kMaxSequenceNumber, kTypeDeletion), InternalKey(2, 5, 1) >>

IsSentinel(k) == GetInternalKeySeqno(k) = kMaxSequenceNumber

Shapes ==
    {g \in [l : 1..Len(KeySpace), r : 1..Len(KeySpace), il : BOOLEAN, ir : BOOLEAN] :
        /\ g.l <= g.r
        /\ (g.l = g.r => g.il /\ g.ir)
        /\ (IsSentinel(KeySpace[g.l]) => ~g.il)
        /\ (IsSentinel(KeySpace[g.r]) => g.ir)}

\* g ends before h begins (touching endpoints need complementary inclusivity).
ShapeBefore(g, h) ==
    2 * g.r - (IF g.ir THEN 0 ELSE 1) < 2 * h.l + (IF h.il THEN 0 ELSE 1)

RECURSIVE ShapeVectors(_)
ShapeVectors(n) ==
    IF n = 0 THEN {<<>>}
    ELSE LET prev == ShapeVectors(n - 1)
         IN  prev \cup
             {Append(v, g) : <<v, g>> \in
                 {x \in prev \X Shapes :
                     /\ Len(x[1]) = n - 1
                     /\ (n > 1 => ShapeBefore(x[1][n - 1], x[2]))}}

InputShapes == ShapeVectors(MaxLen) \ {<<>>}

\* What the intervals of an input vector carry: a data file's interval
\* (one link of size 0, not stable) or a decoded map element (stable).
AttrsA ==
    << [dependence |-> <<LinkTarget(1, 0)>>, no_records |-> FALSE, stable |-> FALSE],
       [dependence |-> <<LinkTarget(2, 3), LinkTarget(3, 4)>>,
        no_records |-> TRUE, stable |-> TRUE],
       [dependence |-> <<LinkTarget(4, 5)>>, no_records |-> FALSE, stable |-> TRUE] >>

AttrsB ==
    << [dependence |-> <<LinkTarget(5, 0)>>, no_records |-> FALSE, stable |-> FALSE],
       [dependence |-> <<LinkTarget(2, 6)>>, no_records |-> TRUE, stable |-> TRUE],
       [dependence |-> <<LinkTarget(6, 1), LinkTarget(7, 2)>>,
        no_records |-> FALSE, stable |-> TRUE] >>

\* RangeWithDepend(const Range&): a mask of DELETE has no links.
AttrsMask ==
    << [dependence |-> <<>>, no_records |-> FALSE, stable |-> FALSE] >>

MakeRange(g, at) ==
    [point |-> Pair(KeySpace[g.l], KeySpace[g.r]), include |-> Pair(g.il, g.ir),
     no_records |-> at.no_records, stable |-> at.stable,
     dependence |-> at.dependence]

MakeVector(gs, attrs, off) ==
    [i \in 1..Len(gs) |-> MakeRange(gs[i], attrs[((off + i - 1) % Len(attrs)) + 1])]

(***************************************************************************)
(* Files.  FileMetaData: the file number, the purpose of the table, its    *)
(* smallest and largest internal key and, for a map table, the elements    *)
(* its iterator yields.                                                    *)
(***************************************************************************)
kEssenceSst == "kEssenceSst"
kMapSst == "kMapSst"

\* Range{start, limit, include_start, include_limit}
Range(st, lim, ist, ilim) ==
    [start |-> st, limit |-> lim, include_start |-> ist, include_limit |-> ilim]

MapSstElement(sk, lk, isk, ilk, nr, lnk) ==
    [smallest_key_ |-> sk, largest_key_ |-> lk, include_smallest_ |-> isk,
     include_largest_ |-> ilk, no_records_ |-> nr, link_ |-> lnk]

FileMetaData(n, pur, sk, lk, els) ==
    [number |-> n, purpose |-> pur, smallest |-> sk, largest |-> lk,
     elements |-> els]

IsPrefaceRange(range, f) ==
    /\ f.purpose = kEssenceSst
    /\ range.include_start
    /\ Compare(range.start, f.smallest) = 0
    /\ range.limit.uk = f.largest.uk
    /\ IF ExtractInternalKeyFooter(f.largest) = kMaxSequenceNumber
       THEN ExtractInternalKeyFooter(range.limit) = kMaxSequenceNumber
       ELSE /\ range.include_limit
            /\ ExtractInternalKeyFooter(range.limit)
                 = ExtractInternalKeyFooter(f.largest)

\* RangeWithDepend(const FileMetaData* f)
RangeOfFile(f) ==
    [point |-> Pair(f.smallest,
                    IF GetInternalKeySeqno(f.largest) = kMaxSequenceNumber
                    THEN InternalKey(f.largest.uk, kMaxSequenceNumber, kTypeDeletion)
                    ELSE f.largest),
     include |-> Pair(TRUE, TRUE), no_records |-> FALSE, stable |-> FALSE,
     dependence |-> <<LinkTarget(f.number, 0)>>]

\* RangeWithDepend(const MapSstElement& map_element)
RangeOfElement(e) ==
    [point |-> Pair(e.smallest_key_, e.largest_key_),
     include |-> Pair(e.include_smallest_, e.include_largest_),
     no_records |-> e.no_records_, stable |-> TRUE, dependence |-> e.link_]

\* RangeWithDepend(const Range& range)
RangeOfRange(range) ==
    [point |->
        Pair(IF GetInternalKeySeqno(range.start) = kMaxSequenceNumber
             THEN InternalKey(range.start.uk, kMaxSequenceNumber, kTypeDeletion)
             ELSE range.limit,
             IF GetInternalKeySeqno(range.limit) = kMaxSequenceNumber
             THEN InternalKey(range.limit.uk, kMaxSequenceNumber, kTypeDeletion)
             ELSE range.limit),
     include |->
        Pair(IF GetInternalKeySeqno(range.start) = kMaxSequenceNumber
             THEN FALSE ELSE range.include_limit,
             IF GetInternalKeySeqno(range.limit) = kMaxSequenceNumber
             THEN TRUE ELSE range.include_limit),
     no_records |-> FALSE, stable |-> FALSE, dependence |-> <<>>]

(***************************************************************************)
(* The tables of the model.  1..4 are data tables: 1 = [1@9,2@7],          *)
(* 2 = [2@3,3@5], 3 = [2@8,3@7] (overlaps 1 and 2), 4 = [4@5,5@max] (its   *)
(* largest key is a range tombstone's sentinel, type 15).  5 and 6 are map *)
(* tables: 5 holds the whole ranges of 1 and 2, 6 the partition of 1 and 3.*)
(* 7 is a data table of the one record 6@4.                                *)
(* 8 is a map table of one entry, the whole range of 1.                   *)
(* 9..15 are the tables of the read path, at user keys 7 and 8:            *)
(* 9 = data {7@18, 7@3}; 10 = data {7@5, 7@2 (a deletion)};                *)
(* 11 = map of the one entry [7@20, 7@5) -> 9; 12 = map of the whole range *)
(* of 9; 13 = map of three entries whose smallest keys are exclusive, the  *)
(* first of the type used for seeking, the last with footer 0;             *)
(* 14 = data {8@2}; 15 = map of one entry that links to map 11.            *)
(* 16 = map of the one entry [4@5, 5@max] -> 4, with the size of 4 between *)
(* its two records; 17 = data {4@1}, inside the range of 4 and after its   *)
(* records; 18 = data {1@9}, the key the range of 1 begins with;           *)
(* 19 = map of [4@5, 4@3] -> 4 and (4@3, 5@max] -> 4, the latter without   *)
(* records.                                                                *)
(***************************************************************************)
Files ==
    << FileMetaData(1, kEssenceSst, InternalKey(1, 9, 1), InternalKey(2, 7, 1), <<>>),
       FileMetaData(2, kEssenceSst, InternalKey(2, 3, 1), InternalKey(3, 5, 1), <<>>),
       FileMetaData(3, kEssenceSst, InternalKey(2, 8, 1), InternalKey(3, 7, 1), <<>>),
       FileMetaData(4, kEssenceSst, InternalKey(4, 5, 1),
                    InternalKey(5, kMaxSequenceNumber, 15), <<>>),
       FileMetaData(5, kMapSst, InternalKey(1, 9, 1), InternalKey(3, 5, 1),
           << MapSstElement(InternalKey(1, 9, 1), InternalKey(2, 7, 1), TRUE, TRUE,
                            FALSE, <<LinkTarget(1, 8)>>),
              MapSstElement(InternalKey(2, 3, 1), InternalKey(3, 5, 1), TRUE, TRUE,
                            FALSE, <<LinkTarget(2, 6)>>) >>),
       FileMetaData(6, kMapSst, InternalKey(1, 9, 1), InternalKey(3, 7, 1),
           << MapSstElement(InternalKey(1, 9, 1), InternalKey(2, 8, 1), TRUE, FALSE,
                            FALSE, <<LinkTarget(1, 4)>>),
              MapSstElement(InternalKey(2, 8, 1), InternalKey(2, 7, 1), TRUE, TRUE,
                            FALSE, <<LinkTarget(1, 4), LinkTarget(3, 2)>>),
              MapSstElement(InternalKey(2, 7, 1), InternalKey(3, 7, 1), FALSE, TRUE,
                            FALSE, <<LinkTarget(3, 6)>>) >>),
       FileMetaData(7, kEssenceSst, InternalKey(6, 4, 1), InternalKey(6, 4, 1), <<>>),
       FileMetaData(8, kMapSst, InternalKey(1, 9, 1), InternalKey(2, 7, 1),
           << MapSstElement(InternalKey(1, 9, 1), InternalKey(2, 7, 1), TRUE, TRUE,
                            FALSE, <<LinkTarget(1, 8)>>) >>),
       FileMetaData(9, kEssenceSst, InternalKey(7, 18, 1), InternalKey(7, 3, 1), <<>>),
       FileMetaData(10, kEssenceSst, InternalKey(7, 5, 1), InternalKey(7, 2, 0), <<>>),
       FileMetaData(11, kMapSst, InternalKey(7, 20, 1), InternalKey(7, 5, 1),
           << MapSstElement(InternalKey(7, 20, 1), InternalKey(7, 5, 1), TRUE, FALSE,
                            FALSE, <<LinkTarget(9, 0)>>) >>),
       FileMetaData(12, kMapSst, InternalKey(7, 18, 1), InternalKey(7, 3, 1),
           << MapSstElement(InternalKey(7, 18, 1), InternalKey(7, 3, 1), TRUE, TRUE,
                            FALSE, <<LinkTarget(9, 4)>>) >>),
       FileMetaData(13, kMapSst, InternalKey(7, 20, 17), InternalKey(8, 2, 1),
           << MapSstElement(InternalKey(7, 20, 17), InternalKey(7, 5, 1), FALSE, TRUE,
                            FALSE, <<LinkTarget(9, 0), LinkTarget(10, 0)>>),
              MapSstElement(InternalKey(7, 5, 1), InternalKey(7, 0, 0), FALSE, TRUE,
                            FALSE, <<LinkTarget(10, 4)>>),
              MapSstElement(InternalKey(7, 0, 0), InternalKey(8, 2, 1), FALSE, TRUE,
                            FALSE, <<LinkTarget(14, 0)>>) >>),
       FileMetaData(14, kEssenceSst, InternalKey(8, 2, 1), InternalKey(8, 2, 1), <<>>),
       FileMetaData(15, kMapSst, InternalKey(7, 20, 1), InternalKey(7, 3, 1),
           << MapSstElement(InternalKey(7, 20, 1), InternalKey(7, 3, 1), TRUE, TRUE,
                            FALSE, <<LinkTarget(11, 0)>>) >>),
       FileMetaData(16, kMapSst, InternalKey(4, 5, 1),
                    InternalKey(5, kMaxSequenceNumber, kTypeDeletion),
           << MapSstElement(InternalKey(4, 5, 1),
                            InternalKey(5, kMaxSequenceNumber, kTypeDeletion),
                            TRUE, TRUE, FALSE, <<LinkTarget(4, 4)>>) >>),
       FileMetaData(17, kEssenceSst, InternalKey(4, 1, 1), InternalKey(4, 1, 1), <<>>),
       FileMetaData(18, kEssenceSst, InternalKey(1, 9, 1), InternalKey(1, 9, 1), <<>>),
       FileMetaData(19, kMapSst, InternalKey(4, 5, 1),
                    InternalKey(5, kMaxSequenceNumber, kTypeDeletion),
           << MapSstElement(InternalKey(4, 5, 1), InternalKey(4, 3, 1), TRUE, TRUE,
                            FALSE, <<LinkTarget(4, 4)>>),
              MapSstElement(InternalKey(4, 3, 1),
                            InternalKey(5, kMaxSequenceNumber, kTypeDeletion),
                            FALSE, TRUE, TRUE, <<LinkTarget(4, 0)>>) >>) >>

\* The records of the data tables, in the order of their iterator.
Records(n) ==
    CASE n = 1 -> <<InternalKey(1, 9, 1), InternalKey(1, 5, 1), InternalKey(2, 7, 1)>>
      [] n = 2 -> <<InternalKey(2, 3, 1), InternalKey(3, 5, 1)>>
      [] n = 3 -> <<InternalKey(2, 8, 1), InternalKey(3, 7, 1)>>
      [] n = 4 -> <<InternalKey(4, 5, 1), InternalKey(4, 3, 1)>>
      [] n = 7 -> <<InternalKey(6, 4, 1)>>
      [] n = 9 -> <<InternalKey(7, 18, 1), InternalKey(7, 3, 1)>>
      [] n = 10 -> <<InternalKey(7, 5, 1), InternalKey(7, 2, 0)>>
      [] n = 14 -> <<InternalKey(8, 2, 1)>>
      [] n = 17 -> <<InternalKey(4, 1, 1)>>
      [] n = 18 -> <<InternalKey(1, 9, 1)>>
      [] OTHER -> <<>>

\* IteratorCache::GetFileMetaData(file_number)
GetFileMetaData(n) == Files[n]

\* The file numbers a table links to (its dependence).
LinkedFiles(n) ==
    {Files[n].elements[i].link_[j].file_number :
        <<i, j>> \in {x \in (1..Len(Files[n].elements)) \X (1..2) :
                        x[2] <= Len(Files[n].elements[x[1]].link_)}}

\* LoadRangeWithDepend: the ranges of the files, appended in order.
RECURSIVE LoadRangeWithDepend(_)
LoadRangeWithDepend(file_meta) ==
    IF file_meta = <<>> THEN <<>>
    ELSE LET f == Files[Head(file_meta)]
         IN  (IF f.purpose = kMapSst
              THEN [i \in 1..Len(f.elements) |-> RangeOfElement(f.elements[i])]
              ELSE <<RangeOfFile(f)>>)
             \o LoadRangeWithDepend(Tail(file_meta))

\* CompactionInputFiles{level, files}
CompactionInputFiles(l, fs) == [level |-> l, files |-> fs]

\* The vectors the load loop of Build appends for one input level.
RECURSIVE LoadLevel0(_)
LoadLevel0(fs) ==
    IF fs = <<>> THEN <<>>
    ELSE <<LoadRangeWithDepend(<<Head(fs)>>)>> \o LoadLevel0(Tail(fs))

RECURSIVE LoadInputs(_)
LoadInputs(ins) ==
    IF ins = <<>> THEN <<>>
    ELSE LET level_files == Head(ins)
         IN  (IF level_files.files = <<>> THEN <<>>
              ELSE IF level_files.level = 0 THEN LoadLevel0(level_files.files)
              ELSE <<LoadRangeWithDepend(level_files.files)>>)
             \o LoadInputs(Tail(ins))

RECURSIVE CountRanges(_)
CountRanges(lr) == IF lr = <<>> THEN 0 ELSE Len(Head(lr)) + CountRanges(Tail(lr))

\* Mutant of the choice of the pair: the last pair of least combined size
\* (sum <= min_sum at line 643).
UnionA_Last(lr) ==
    CHOOSE i \in 1..(Len(lr) - 1) :
        \A j \in 1..(Len(lr) - 1) :
            LET si == Len(lr[i]) + Len(lr[i + 1])
                sj == Len(lr[j]) + Len(lr[j + 1])
            IN  si < sj \/ (si = sj /\ i >= j)

\* The pair the merge loop picks: the first adjacent pair of least combined size.
UnionA(lr) ==
    CHOOSE i \in 1..(Len(lr) - 1) :
        \A j \in 1..(Len(lr) - 1) :
            LET si == Len(lr[i]) + Len(lr[i + 1])
                sj == Len(lr[j]) + Len(lr[j + 1])
            IN  si < sj \/ (si = sj /\ i <= j)

MergeOnce(lr) ==
    LET i == UnionA(lr)
    IN  SubSeq(lr, 1, i - 1)
        \o <<PartitionRangeWithDepend(lr[i], lr[i + 1], kMerge)>>
        \o SubSeq(lr, i + 2, Len(lr))

\* VersionEdit: AddFile appends to new_files, DeleteFile inserts into deleted.
EmptyEdit == [new_files |-> EmptyBag, deleted |-> {}]
AddFile(e, level, n) ==
    [e EXCEPT !.new_files = e.new_files (+) SetToBag({<<level, n>>})]
DeleteFile(e, level, n) == [e EXCEPT !.deleted = e.deleted \cup {<<level, n>>}]

\* edit_del_file applied to every file of every input level.
AllInputFiles(ins) ==
    {<<ins[i].level, ins[i].files[j]>> :
        <<i, j>> \in {x \in (1..Len(ins)) \X (1..Len(Files)) :
                        x[2] <= Len(ins[x[1]].files)}}

\* Mutant of the deletion of the inputs: one input file is left out.
RECURSIVE DeleteAll_KeepLast(_, _)
DeleteAll_KeepLast(e, fs) ==
    IF Cardinality(fs) <= 1 THEN e
    ELSE LET x == CHOOSE y \in fs : TRUE
         IN  DeleteAll_KeepLast(DeleteFile(e, x[1], x[2]), fs \ {x})

RECURSIVE DeleteAll(_, _)
DeleteAll(e, fs) ==
    IF fs = {} THEN e
    ELSE LET x == CHOOSE y \in fs : TRUE
         IN  DeleteAll(DeleteFile(e, x[1], x[2]), fs \ {x})

RECURSIVE AddAll(_, _, _)
AddAll(e, level, ns) ==
    IF ns = {} THEN e
    ELSE LET n == CHOOSE y \in ns : TRUE
         IN  AddAll(AddFile(e, level, n), level, ns \ {n})

\* The check "is need build map": the files of the leading ranges that have
\* one link and are the preface range of its file, up to the first that is not.
RECURSIVE SstLive(_)
SstLive(ranges) ==
    IF ranges = <<>> THEN [build_map_sst |-> FALSE, sst_live |-> {}]
    ELSE LET it == Head(ranges)
             f == GetFileMetaData(it.dependence[1].file_number)
             r == Range(it.point[0], it.point[1], it.include[0], it.include[1])
         IN  IF Len(it.dependence) > 1 \/ ~IsPrefaceRange(r, f)
             THEN [build_map_sst |-> TRUE, sst_live |-> {}]
             ELSE LET rest == SstLive(Tail(ranges))
                  IN  [build_map_sst |-> rest.build_map_sst,
                       sst_live |-> rest.sst_live \cup {f.number}]

\* "unnecessary build map sst": the edits of the short-circuit.
\* Mutant of the short-circuit: a surviving file is added at output_level
\* without being deleted at the level it comes from.
RECURSIVE MoveFiles_NoDelete(_, _, _, _)
MoveFiles_NoDelete(st, level, fs, out_level) ==
    IF fs = <<>> THEN st
    ELSE LET n == Head(fs)
             st1 == IF n \in st.sst_live
                    THEN IF out_level # level
                         THEN [st EXCEPT !.sst_live = st.sst_live \ {n},
                                         !.edit = AddFile(st.edit, out_level, n)]
                         ELSE [st EXCEPT !.sst_live = st.sst_live \ {n}]
                    ELSE [st EXCEPT !.edit = DeleteFile(st.edit, level, n),
                                    !.deleted_files = st.deleted_files \cup {n}]
         IN  MoveFiles_NoDelete(st1, level, Tail(fs), out_level)

RECURSIVE MoveFiles(_, _, _, _)
MoveFiles(st, level, fs, out_level) ==
    IF fs = <<>> THEN st
    ELSE LET n == Head(fs)
             st1 == IF n \in st.sst_live
                    THEN IF out_level # level
                         THEN [st EXCEPT !.sst_live = st.sst_live \ {n},
                                         !.edit = AddFile(DeleteFile(st.edit, level, n),
                                                          out_level, n),
                                         !.deleted_files = st.deleted_files \cup {n}]
                         ELSE [st EXCEPT !.sst_live = st.sst_live \ {n}]
                    ELSE [st EXCEPT !.edit = DeleteFile(st.edit, level, n),
                                    !.deleted_files = st.deleted_files \cup {n}]
         IN  MoveFiles(st1, level, Tail(fs), out_level)

RECURSIVE MoveInputs(_, _, _)
MoveInputs(st, ins, out_level) ==
    IF ins = <<>> THEN st
    ELSE MoveInputs(MoveFiles(st, Head(ins).level, Head(ins).files, out_level),
                    Tail(ins), out_level)

(***************************************************************************)
(* State.  The partitioner's locals, the locals and the results of         *)
(* MapBuilder::Build, the table cache with its callers, a call of          *)
(* TableCache::Get and a MapSstElementIterator.                            *)
(***************************************************************************)
VARIABLES ranges_a, ranges_b, type, output, source, fault, ai, bi, ab, bb, pc

VARIABLES inputs, deleted_range, added_files, output_level, level_ranges,
          input_range_count, edit, deleted_files, status, next_file_number,
          file_meta, build_pc

partVars == <<ranges_a, ranges_b, type, output, source, fault, ai, bi, ab, bb, pc>>

buildVars ==
    <<inputs, deleted_range, added_files, output_level, level_ranges,
      input_range_count, edit, deleted_files, status, next_file_number,
      file_meta, build_pc>>

\* The table cache: the shared cache (key -> entry), the table readers ever
\* opened, every thread's call in progress with what its caller holds, the
\* iterators that were lost, and the environment.
VARIABLES cache_, readers, calls, lost, env

cacheVars == <<cache_, readers, calls, lost, env>>

\* TableCache::Get: the arguments of the call with what the environment
\* decides, the get context, the status s, the position of the call, the
\* map entry its range scan stands at, and what the call did so far (the
\* lookups in data tables, one record for each return of get_from_map).
VARIABLES get_call, get_context, get_status, get_pc, get_where, get_log,
          get_handles

getVars ==
    <<get_call, get_context, get_status, get_pc, get_where, get_log, get_handles>>

\* MapSstElementIterator: its fields, the entries of ranges_ the element it
\* stands at was made of, the tables whose iterator the last PrepareNext
\* asked the iterator cache for, and the elements it was valid at so far.
VARIABLES ranges_, where_, map_elements_, buffer_, status_, dependence_build_,
          sst_read_amp_, iterator_cache_, consumed, opened, emitted

emitVars ==
    <<ranges_, where_, map_elements_, buffer_, status_, dependence_build_,
      sst_read_amp_, iterator_cache_, consumed, opened, emitted>>

\* MapElementIterator: its fields (where_ as array_where_; iter_ as the entry
\* of the map table it stands at, 0 for none, -1 for an iterator that failed
\* to open), the last three operations with what they left, and the
\* elements of the walk since SeekToFirst or SeekToLast.
VARIABLES meta_array_, array_where_, iter_, element_, history, walk

stitchVars == <<meta_array_, array_where_, iter_, element_, history, walk>>

vars == <<partVars, buildVars, cacheVars, getVars, emitVars, stitchVars>>

\* No partition, no build, no table cache call, no Get, no iteration is running.
PartIdle ==
    /\ ranges_a = <<>> /\ ranges_b = <<>> /\ type = kMerge /\ output = <<>>
    /\ source = nullptr /\ fault = "none"
    /\ ai = 0 /\ bi = 0 /\ ab = 0 /\ bb = 0 /\ pc = "idle"

CacheIdle ==
    /\ cache_ = <<>> /\ readers = <<>> /\ calls = <<>> /\ lost = <<>>
    /\ env = <<>>

GetIdle ==
    /\ get_call = <<>> /\ get_context = <<>> /\ get_status = "OK"
    /\ get_pc = "idle" /\ get_where = 0 /\ get_log = <<>>
    /\ get_handles = <<>>

EmitIdle ==
    /\ ranges_ = <<>> /\ where_ = 0 /\ map_elements_ = <<>> /\ buffer_ = <<>>
    /\ status_ = "OK" /\ dependence_build_ = {} /\ sst_read_amp_ = 0
    /\ iterator_cache_ = {} /\ consumed = <<>>
    /\ opened = {} /\ emitted = <<>>

StitchIdle ==
    /\ meta_array_ = <<>> /\ array_where_ = 0 /\ iter_ = 0 /\ element_ = <<>>
    /\ history = <<>> /\ walk = <<>>

BuildIdle ==
    /\ inputs = <<>> /\ deleted_range = <<>> /\ added_files = <<>>
    /\ output_level = 0 /\ level_ranges = <<>> /\ input_range_count = 0
    /\ edit = EmptyEdit /\ deleted_files = {} /\ status = "OK"
    /\ next_file_number = 0 /\ file_meta = <<>> /\ build_pc = "idle"

(***************************************************************************)
(* The partitioner as a state machine: one loop iteration per step.        *)
(***************************************************************************)
SweepState ==
    [ranges_a |-> ranges_a, ranges_b |-> ranges_b, type |-> type,
     output |-> output, source |-> source, fault |-> fault,
     ai |-> ai, bi |-> bi, ab |-> ab, bb |-> bb]

PartInit ==
    \E ga \in InputShapes, gb \in InputShapes, t \in {kMerge, kDelete},
       off \in 0..(Len(AttrsA) - 1) :
        /\ ranges_a = MakeVector(ga, AttrsA, off)
        /\ ranges_b = MakeVector(gb, IF t = kMerge THEN AttrsB ELSE AttrsMask, off)
        /\ type = t
        /\ output = <<>>
        /\ source = nullptr
        /\ fault = "none"
        /\ ai = 0 /\ bi = 0 /\ ab = 0 /\ bb = 0
        /\ pc = "loop"

Init == PartInit /\ BuildIdle /\ CacheIdle /\ GetIdle /\ EmitIdle /\ StitchIdle

PartitionStep ==
    /\ pc = "loop"
    /\ \E s1 \in {SweepBody(SweepState)} :
           /\ output' = s1.output
           /\ source' = s1.source
           /\ fault' = s1.fault
           /\ ai' = s1.ai /\ bi' = s1.bi /\ ab' = s1.ab /\ bb' = s1.bb
           /\ pc' = IF SweepMore(s1) THEN "loop" ELSE "done"
    /\ UNCHANGED <<ranges_a, ranges_b, type>>
    /\ UNCHANGED <<buildVars, cacheVars, getVars, emitVars, stitchVars>>

Next == PartitionStep

Spec == Init /\ [][Next]_vars

(***************************************************************************)
(* MapBuilder::Build as a state machine: load, one step per iteration of   *)
(* the merge loop, delete, add, and the return paths.                      *)
(***************************************************************************)
MaxFiles == 2
MaxLevel == 1

\* VersionSet::NewFileNumber hands out the numbers after those in use.
FirstFileNumber == Len(Files) + 1

\* The tables a build is given.
BuildFiles == 1..8

RECURSIVE FileLists(_)
FileLists(n) ==
    IF n = 0 THEN {<<>>}
    ELSE LET prev == FileLists(n - 1)
         IN  prev \cup
             {Append(x[1], x[2]) : x \in
                 {y \in prev \X BuildFiles :
                     /\ Len(y[1]) = n - 1
                     /\ \A i \in 1..Len(y[1]) : y[1][i] # y[2]}}

\* The files of a level above 0 (and the added files) are sorted and disjoint.
IsSortedLevel(fs) ==
    \A i \in 1..(Len(fs) - 1) :
        Compare(Files[fs[i]].largest, Files[fs[i + 1]].smallest) < 0

LevelFiles(level) ==
    {fs \in FileLists(MaxFiles) : level = 0 \/ IsSortedLevel(fs)}

\* Level 0 with three and four files, of one and of several ranges each, so
\* that the merge loop has a choice.
WideInputs ==
    {<<CompactionInputFiles(0, fs)>> :
        fs \in {<<6, 4, 7>>, <<4, 7, 6>>, <<4, 7, 17>>, <<5, 4, 7>>,
                <<6, 4, 7, 17>>, <<4, 6, 7, 17>>}}

BuildInputs ==
    WideInputs
    \cup
    {<<CompactionInputFiles(l, fs)>> :
        <<l, fs>> \in {x \in (0..MaxLevel) \X FileLists(MaxFiles) :
                         x[2] \in LevelFiles(x[1]) /\ x[2] # <<>>}}
    \cup
    {<<CompactionInputFiles(0, x[1]), CompactionInputFiles(1, x[2])>> :
        x \in {y \in LevelFiles(0) \X LevelFiles(1) :
                 Len(y[1]) + Len(y[2]) \in 1..MaxFiles}}

AddedFiles ==
    {fs \in FileLists(1) : \A i \in 1..Len(fs) : Files[fs[i]].purpose = kEssenceSst}

DeletedRanges ==
    { <<>>,
      <<Range(InternalKey(1, 9, 1), InternalKey(2, 7, 1), TRUE, TRUE)>>,
      <<Range(InternalKey(2, 3, 1), InternalKey(3, 5, 1), TRUE, FALSE)>>,
      <<Range(InternalKey(6, 4, 1), InternalKey(6, 4, 1), TRUE, TRUE)>> }

Seq2Set(fs) == {fs[i] : i \in 1..Len(fs)}

InputNumbers(ins) == {x[2] : x \in AllInputFiles(ins)}

\* A file is in one place only: in one input level, among the added files,
\* or behind a map table that links to it.
ValidBuild(ins, added) ==
    LET ns == InputNumbers(ins) \cup Seq2Set(added)
    IN  /\ Cardinality(AllInputFiles(ins)) = Cardinality(InputNumbers(ins))
        /\ InputNumbers(ins) \cap Seq2Set(added) = {}
        /\ \A n \in ns : LinkedFiles(n) \cap ns = {}

\* A call of Build: its arguments and its locals as constructed.
BuildCall ==
    \E ins \in BuildInputs, dr \in DeletedRanges, added \in AddedFiles,
       ol \in 0..MaxLevel :
        /\ ValidBuild(ins, added)
        /\ inputs = ins
        /\ deleted_range = dr
        /\ added_files = added
        /\ output_level = ol
        /\ level_ranges = <<>>
        /\ input_range_count = 0
        /\ edit = EmptyEdit
        /\ deleted_files = {}
        /\ status = "OK"
        /\ next_file_number = FirstFileNumber
        /\ file_meta = <<>>
        /\ build_pc = "load"

\* A return of Build with status st and nothing else changed.
Return(st) ==
    /\ status' = st
    /\ build_pc' = "done"

\* "load input files into level_ranges"; the iterator of a file may fail.
BuildLoad ==
    /\ build_pc = "load"
    /\ \E ok \in BOOLEAN :
           IF ok
           THEN /\ level_ranges' = LoadInputs(inputs)
                /\ input_range_count' = CountRanges(LoadInputs(inputs))
                /\ build_pc' = "merge"
                /\ UNCHANGED status
           ELSE /\ Return("IOError")
                /\ UNCHANGED <<level_ranges, input_range_count>>
    /\ UNCHANGED <<inputs, deleted_range, added_files, output_level, edit,
                   deleted_files, next_file_number, file_meta>>
    /\ UNCHANGED <<partVars, cacheVars, getVars, emitVars, stitchVars>>

\* One iteration of "merge ranges".
BuildMerge ==
    /\ build_pc = "merge"
    /\ Len(level_ranges) > 1
    /\ LET i == UnionA(level_ranges)
           f == PartitionFault(level_ranges[i], level_ranges[i + 1], kMerge)
       IN  IF f = "none"
           THEN /\ level_ranges' = MergeOnce(level_ranges)
                /\ UNCHANGED <<status, build_pc>>
           ELSE /\ Return(f)
                /\ UNCHANGED level_ranges
    /\ UNCHANGED <<inputs, deleted_range, added_files, output_level,
                   input_range_count, edit, deleted_files, next_file_number,
                   file_meta>>
    /\ UNCHANGED <<partVars, cacheVars, getVars, emitVars, stitchVars>>

\* The vector of the deleted ranges.
RECURSIVE MaskRanges(_)
MaskRanges(dr) ==
    IF dr = <<>> THEN <<>> ELSE <<RangeOfRange(Head(dr))>> \o MaskRanges(Tail(dr))

\* The deleted ranges are cut out of the merged vector.
BuildDelete ==
    /\ build_pc = "merge"
    /\ Len(level_ranges) <= 1
    /\ IF level_ranges # <<>> /\ deleted_range # <<>>
       THEN LET ranges == MaskRanges(deleted_range)
                f == PartitionFault(level_ranges[1], ranges, kDelete)
                front == PartitionRangeWithDepend(level_ranges[1], ranges, kDelete)
            IN  IF f = "none"
                THEN /\ level_ranges' = IF front = <<>> THEN <<>> ELSE <<front>>
                     /\ build_pc' = "add"
                     /\ UNCHANGED status
                ELSE /\ Return(f)
                     /\ UNCHANGED level_ranges
       ELSE /\ build_pc' = "add"
            /\ UNCHANGED <<level_ranges, status>>
    /\ UNCHANGED <<inputs, deleted_range, added_files, output_level,
                   input_range_count, edit, deleted_files, next_file_number,
                   file_meta>>
    /\ UNCHANGED <<partVars, cacheVars, getVars, emitVars, stitchVars>>

\* The added files are loaded and merged in; the iterator of one may fail.
BuildAdd ==
    /\ build_pc = "add"
    /\ IF added_files # <<>>
       THEN \E ok \in BOOLEAN :
                LET ranges == LoadRangeWithDepend(added_files)
                    f == IF level_ranges = <<>> THEN "none"
                         ELSE PartitionFault(level_ranges[1], ranges, kMerge)
                IN  IF ~ok
                    THEN Return("IOError") /\ UNCHANGED level_ranges
                    ELSE IF f # "none"
                    THEN Return(f) /\ UNCHANGED level_ranges
                    ELSE /\ level_ranges' =
                              IF level_ranges = <<>> THEN <<ranges>>
                              ELSE <<PartitionRangeWithDepend(level_ranges[1],
                                                              ranges, kMerge)>>
                         /\ build_pc' = "check"
                         /\ UNCHANGED status
       ELSE /\ build_pc' = "check"
            /\ UNCHANGED <<level_ranges, status>>
    /\ UNCHANGED <<inputs, deleted_range, added_files, output_level,
                   input_range_count, edit, deleted_files, next_file_number,
                   file_meta>>
    /\ UNCHANGED <<partVars, cacheVars, getVars, emitVars, stitchVars>>

\* Nothing survives: every input file is deleted.
BuildEmpty ==
    /\ build_pc = "check"
    /\ level_ranges = <<>>
    /\ edit' = DeleteAll(edit, AllInputFiles(inputs))
    /\ deleted_files' = deleted_files \cup InputNumbers(inputs)
    /\ Return(status)
    /\ UNCHANGED <<inputs, deleted_range, added_files, output_level, level_ranges,
                   input_range_count, next_file_number, file_meta>>
    /\ UNCHANGED <<partVars, cacheVars, getVars, emitVars, stitchVars>>

\* The condition under which Build looks for the short-circuit and finds it.
NoMapNeeded ==
    /\ level_ranges # <<>>
    /\ output_level # 0 \/ Len(level_ranges[1]) = 1
    /\ ~SstLive(level_ranges[1]).build_map_sst

\* "unnecessary build map sst": the surviving files move to output_level.
ShortCircuit(e, d, ins, ranges, out_level) ==
    LET st == MoveInputs([sst_live |-> SstLive(ranges).sst_live, edit |-> e,
                          deleted_files |-> d], ins, out_level)
    IN  [st EXCEPT !.edit = AddAll(st.edit, out_level, st.sst_live)]

BuildShortCircuit ==
    /\ build_pc = "check"
    /\ NoMapNeeded
    /\ \E st \in {ShortCircuit(edit, deleted_files, inputs, level_ranges[1],
                               output_level)} :
           /\ edit' = st.edit
           /\ deleted_files' = st.deleted_files
    /\ Return(status)
    /\ UNCHANGED <<inputs, deleted_range, added_files, output_level, level_ranges,
                   input_range_count, next_file_number, file_meta>>
    /\ UNCHANGED <<partVars, cacheVars, getVars, emitVars, stitchVars>>

\* Mutant of the stability check: std::any_of without the negation.
AllStable_AnyUnstable ==
    /\ Len(inputs) = 1
    /\ Len(inputs[1].files) = 1
    /\ Files[inputs[1].files[1]].purpose = kMapSst
    /\ Len(level_ranges[1]) = input_range_count
    /\ \E i \in 1..Len(level_ranges[1]) : ~level_ranges[1][i].stable

\* "all ranges stable, new map will equals to input map, done"
AllStable ==
    /\ Len(inputs) = 1
    /\ Len(inputs[1].files) = 1
    /\ Files[inputs[1].files[1]].purpose = kMapSst
    /\ Len(level_ranges[1]) = input_range_count
    /\ \A i \in 1..Len(level_ranges[1]) : level_ranges[1][i].stable

BuildStable ==
    /\ build_pc = "check"
    /\ level_ranges # <<>>
    /\ ~NoMapNeeded
    /\ AllStable
    /\ Return(status)
    /\ UNCHANGED <<inputs, deleted_range, added_files, output_level, level_ranges,
                   input_range_count, edit, deleted_files, next_file_number,
                   file_meta>>
    /\ UNCHANGED <<partVars, cacheVars, getVars, emitVars, stitchVars>>

\* Mutant of the edits after WriteOutputFile: made whatever the status.
EditAfterWrite_Always(s, e, ins, added, out_level, number) ==
    AddFile(AddAll(DeleteAll(e, AllInputFiles(ins)), -1, Seq2Set(added)),
            out_level, number)

\* The edits after WriteOutputFile returned s: the inputs are deleted, the
\* added files are added at level -1 and the new map table at output_level.
EditAfterWrite(s, e, ins, added, out_level, number) ==
    IF s = "OK"
    THEN AddFile(AddAll(DeleteAll(e, AllInputFiles(ins)), -1, Seq2Set(added)),
                 out_level, number)
    ELSE e

\* WriteOutputFile and the edits after it.  The file number is taken first;
\* creating, filling, finishing, syncing or closing the file may fail, and a
\* file that was written may hit the space limit.
BuildWrite ==
    /\ build_pc = "check"
    /\ level_ranges # <<>>
    /\ ~NoMapNeeded
    /\ ~AllStable
    /\ next_file_number' = next_file_number + 1
    /\ \E s \in {"OK", "IOError", "SpaceLimit"} :
           /\ file_meta' = <<[number |-> next_file_number, purpose |-> kMapSst,
                              ranges |-> level_ranges[1],
                              written |-> s # "IOError"]>>
           /\ edit' = EditAfterWrite(s, edit, inputs, added_files, output_level,
                                     next_file_number)
           /\ deleted_files' = IF s = "OK"
                               THEN deleted_files \cup InputNumbers(inputs)
                               ELSE deleted_files
           /\ Return(s)
    /\ UNCHANGED <<inputs, deleted_range, added_files, output_level, level_ranges,
                   input_range_count>>
    /\ UNCHANGED <<partVars, cacheVars, getVars, emitVars, stitchVars>>

BuildNext ==
    \/ BuildLoad
    \/ BuildMerge
    \/ BuildDelete
    \/ BuildAdd
    \/ BuildEmpty
    \/ BuildShortCircuit
    \/ BuildStable
    \/ BuildWrite

BuildInit ==
    BuildCall /\ PartIdle /\ CacheIdle /\ GetIdle /\ EmitIdle /\ StitchIdle

BuildSpec == BuildInit /\ [][BuildNext]_vars

\* Build runs to its return: no step of it waits for anything.  This is
\* WF_vars(BuildNext) with the enabledness of BuildNext written as its guard:
\* a step of Build can be taken until Build has returned.
BuildFairSpec ==
    BuildSpec /\ ([]<>(build_pc = "done") \/ []<><<BuildNext>>_vars)

(***************************************************************************)
(* The cache behind the table cache (rocksdb::Cache, an LRU cache without  *)
(* a strict capacity limit).  An entry is the table reader it holds: the   *)
(* reader's file number, the number of handles out on it, whether the      *)
(* cache still maps its key to it, whether an insert of the same key put   *)
(* it out, and how often it was destroyed.  The deleter runs when an entry  *)
(* is out of the cache and has no handle.                                  *)
(* A handle is the index of its entry, nullptr is NoHandle.                *)
(***************************************************************************)
NoHandle == 0

TableReader(n) ==
    [number |-> n, refs |-> 0, in_cache |-> FALSE, replaced |-> FALSE,
     deleted |-> 0]

\* DeleteEntry<TableReader> / delete table_reader
Delete(rs, h) == [rs EXCEPT ![h].deleted = @ + 1]

\* The entry h leaves the cache's table; it is freed if no handle is out.
Unlink(rs, h) ==
    LET r1 == [rs EXCEPT ![h].in_cache = FALSE]
    IN  IF rs[h].refs = 0 THEN Delete(r1, h) ELSE r1

\* Cache::Lookup(key): a handle on the entry of key, or nullptr.
Lookup(c, key) ==
    IF c.cache_[key] = NoHandle THEN [c |-> c, handle |-> NoHandle]
    ELSE [c |-> [c EXCEPT !.readers[c.cache_[key]].refs = @ + 1],
          handle |-> c.cache_[key]]

\* Mutant of Insert: the entry that is replaced is freed at once.
Insert_FreeOld(c, key, h) ==
    LET old == c.cache_[key]
        r1 == IF old = NoHandle THEN c.readers
              ELSE Delete([c.readers EXCEPT ![old].replaced = TRUE,
                                            ![old].in_cache = FALSE], old)
    IN  [cache_ |-> [c.cache_ EXCEPT ![key] = h],
         readers |-> [r1 EXCEPT ![h].in_cache = TRUE, ![h].refs = 1]]

\* Cache::Insert(key, value, charge, deleter, &handle): the entry replaces
\* the one of the same key, if any, and a handle on it is returned.
Insert(c, key, h) ==
    LET old == c.cache_[key]
        r1 == IF old = NoHandle THEN c.readers
              ELSE Unlink([c.readers EXCEPT ![old].replaced = TRUE], old)
    IN  [cache_ |-> [c.cache_ EXCEPT ![key] = h],
         readers |-> [r1 EXCEPT ![h].in_cache = TRUE, ![h].refs = 1]]

\* Mutant of Release: the entry is freed although handles are still out.
Release_FreeEarly(c, h) ==
    LET r1 == [c.readers EXCEPT ![h].refs = @ - 1]
    IN  [c EXCEPT !.readers = IF ~r1[h].in_cache THEN Delete(r1, h) ELSE r1]

\* Cache::Release(handle)
Release(c, h) ==
    LET r1 == [c.readers EXCEPT ![h].refs = @ - 1]
    IN  [c EXCEPT !.readers =
            IF r1[h].refs = 0 /\ ~r1[h].in_cache THEN Delete(r1, h) ELSE r1]

\* Cache::Erase(key)
Erase(c, key) ==
    IF c.cache_[key] = NoHandle THEN c
    ELSE [cache_ |-> [c.cache_ EXCEPT ![key] = NoHandle],
          readers |-> Unlink(c.readers, c.cache_[key])]

(***************************************************************************)
(* TableCache.  Threads call FindTable, NewIterator, ReleaseHandle,        *)
(* EraseHandle and Evict; a step is one operation on the cache or on the   *)
(* environment together with the thread's own code up to the next one.     *)
(* A handle may be dereferenced (GetTableReaderFromHandle) at any moment    *)
(* it is held, an iterator's reader at any moment the iterator is held.     *)
(***************************************************************************)
MaxThreads == 2
MaxCacheFiles == 1
MaxReaders == 2
MaxHeld == 2
MaxLost == 1

Threads == 1..MaxThreads
CacheFiles == 1..MaxCacheFiles

\* An iterator as far as its cleanup goes: UnrefEntry(cache, handle),
\* DeleteTableReader(table_reader) or no cleanup; NoIterator: none held.
Iterator(cleanup, h) == [cleanup |-> cleanup, reader |-> h]
NoIterator == Iterator("absent", NoHandle)

\* A thread: the call it makes or made last (op), the locals of the call in
\* progress (fd, no_io, handle, the unique_ptr table_reader, s, NewIterator's
\* create_new_table_reader) and what its caller holds: handles, an iterator
\* and the status the last call returned.
IdleCall ==
    [pc |-> "idle", fd |-> 1, no_io |-> FALSE, handle |-> NoHandle,
     table_reader |-> NoHandle, s |-> "OK", op |-> "none",
     create_new_table_reader |-> FALSE,
     held |-> EmptyBag, iter |-> NoIterator]

\* The call has returned: its locals are gone, what the caller holds stays.
Returned(call) ==
    [IdleCall EXCEPT !.op = call.op, !.held = call.held, !.iter = call.iter]

CacheState == [cache_ |-> cache_, readers |-> readers]

\* Threads that will open a file and have not yet.
Opening == {t \in Threads : calls[t].pc \in {"GetTableReader", "NewTableReader"}}

\* A call that may open a file starts only while a reader is left for it.
CanOpen == Len(readers) + Cardinality(Opening) < MaxReaders

CacheInit ==
    /\ cache_ = [n \in CacheFiles |-> NoHandle]
    /\ readers = <<>>
    /\ calls = [t \in Threads |-> IdleCall]
    /\ lost = EmptyBag
    /\ env = [ok |-> [n \in CacheFiles |-> TRUE],
              failed |-> [n \in CacheFiles |-> FALSE]]

\* FindTable returns s and *handle to where it was called from.
FindReturn(call, st, h) ==
    IF call.op = "FindTable"
    THEN [Returned(call) EXCEPT !.s = st,
                                !.held = IF st = "OK" THEN @ (+) SetToBag({h}) ELSE @]
    ELSE [call EXCEPT !.pc = "NewIterator", !.s = st, !.handle = h]

\* Mutant of the miss with no_io: the file is opened all the same.
FindLookup_IgnoreNoIo(c, call) ==
    LET l == Lookup(c, call.fd)
    IN  IF l.handle # NoHandle
        THEN [c |-> l.c, call |-> FindReturn(call, "OK", l.handle)]
        ELSE [c |-> c, call |-> [call EXCEPT !.pc = "GetTableReader"]]

\* FindTable, lines 144-153: the lookup, and the return on a hit or with no_io.
FindLookup(c, call) ==
    LET l == Lookup(c, call.fd)
    IN  IF l.handle # NoHandle
        THEN [c |-> l.c, call |-> FindReturn(call, "OK", l.handle)]
        ELSE IF call.no_io
        THEN [c |-> c, call |-> FindReturn(call, "Incomplete", NoHandle)]
        ELSE [c |-> c, call |-> [call EXCEPT !.pc = "GetTableReader"]]

\* A caller calls FindTable(fd, no_io).
CallFindTable(t, n, no_io) ==
    /\ calls[t].pc = "idle"
    /\ BagCardinality(calls[t].held) < MaxHeld
    /\ CanOpen
    /\ \E r \in {FindLookup(CacheState,
                            [IdleCall EXCEPT !.fd = n, !.no_io = no_io,
                                             !.op = "FindTable",
                                             !.held = calls[t].held,
                                             !.iter = calls[t].iter])} :
           /\ cache_' = r.c.cache_
           /\ readers' = r.c.readers
           /\ calls' = [calls EXCEPT ![t] = r.call]
    /\ UNCHANGED <<lost, env>>
    /\ UNCHANGED <<partVars, buildVars, getVars, emitVars, stitchVars>>

\* Mutant of a failed open: the failure is remembered and returned again.
OpenFails_Cached(e, n) == ~e.ok[n] \/ e.failed[n]

\* GetTableReader fails: the file cannot be opened or the reader not built.
OpenFails(e, n) == ~e.ok[n]

\* FindTable, lines 154-164: GetTableReader, and the return if it failed.
FindOpen(t) ==
    /\ calls[t].pc = "GetTableReader"
    /\ IF OpenFails(env, calls[t].fd)
       THEN /\ calls' = [calls EXCEPT ![t] = FindReturn(@, "IOError", NoHandle)]
            /\ env' = [env EXCEPT !.failed[calls[t].fd] = TRUE]
            /\ UNCHANGED readers
       ELSE /\ readers' = Append(readers, TableReader(calls[t].fd))
            /\ calls' = [calls EXCEPT ![t].pc = "Insert",
                                      ![t].table_reader = Len(readers) + 1]
            /\ UNCHANGED env
    /\ UNCHANGED <<cache_, lost>>
    /\ UNCHANGED <<partVars, buildVars, getVars, emitVars, stitchVars>>

\* FindTable, lines 165-174: the insert; the cache owns the reader from now.
FindInsert(t) ==
    /\ calls[t].pc = "Insert"
    /\ \E c \in {Insert(CacheState, calls[t].fd, calls[t].table_reader)} :
           /\ cache_' = c.cache_
           /\ readers' = c.readers
    /\ calls' = [calls EXCEPT
                   ![t] = FindReturn([@ EXCEPT !.table_reader = NoHandle], "OK",
                                     calls[t].table_reader)]
    /\ UNCHANGED <<lost, env>>
    /\ UNCHANGED <<partVars, buildVars, getVars, emitVars, stitchVars>>

\* ReleaseHandle(handle) on a handle the caller holds.
CallReleaseHandle(t, h) ==
    /\ calls[t].pc = "idle"
    /\ BagIn(h, calls[t].held)
    /\ \E c \in {Release(CacheState, h)} :
           /\ cache_' = c.cache_
           /\ readers' = c.readers
    /\ calls' = [calls EXCEPT
                   ![t] = [IdleCall EXCEPT !.op = "ReleaseHandle",
                                           !.held = calls[t].held (-) SetToBag({h}),
                                           !.iter = calls[t].iter]]
    /\ UNCHANGED <<lost, env>>
    /\ UNCHANGED <<partVars, buildVars, getVars, emitVars, stitchVars>>

\* EraseHandle(fd, handle), line 128: the release; fd is the handle's file.
CallEraseHandle(t, h) ==
    /\ calls[t].pc = "idle"
    /\ BagIn(h, calls[t].held)
    /\ \E c \in {Release(CacheState, h)} :
           /\ cache_' = c.cache_
           /\ readers' = c.readers
    /\ calls' = [calls EXCEPT
                   ![t] = [IdleCall EXCEPT !.op = "EraseHandle",
                                           !.pc = "Erase",
                                           !.fd = readers[h].number,
                                           !.held = calls[t].held (-) SetToBag({h}),
                                           !.iter = calls[t].iter]]
    /\ UNCHANGED <<lost, env>>
    /\ UNCHANGED <<partVars, buildVars, getVars, emitVars, stitchVars>>

\* Mutant of EraseHandle: the entry is not erased.
EraseKey_Kept(c, key) == c

\* EraseHandle, lines 129-131: the erase.
EraseKey(c, key) == Erase(c, key)

EraseHandleErase(t) ==
    /\ calls[t].pc = "Erase"
    /\ \E c \in {EraseKey(CacheState, calls[t].fd)} :
           /\ cache_' = c.cache_
           /\ readers' = c.readers
    /\ calls' = [calls EXCEPT ![t] = Returned(@)]
    /\ UNCHANGED <<lost, env>>
    /\ UNCHANGED <<partVars, buildVars, getVars, emitVars, stitchVars>>

\* TableCache::Evict(cache, file_number), by any thread.
Evict ==
    /\ \E n \in CacheFiles :
           /\ cache_[n] # NoHandle
           /\ \E c \in {Erase(CacheState, n)} :
                  /\ cache_' = c.cache_
                  /\ readers' = c.readers
    /\ UNCHANGED <<calls, lost, env>>
    /\ UNCHANGED <<partVars, buildVars, getVars, emitVars, stitchVars>>

\* The cache is bounded: an entry no handle is out on may be evicted.
EvictUnreferenced ==
    /\ \E n \in CacheFiles :
           /\ cache_[n] # NoHandle
           /\ readers[cache_[n]].refs = 0
           /\ \E c \in {Erase(CacheState, n)} :
                  /\ cache_' = c.cache_
                  /\ readers' = c.readers
    /\ UNCHANGED <<calls, lost, env>>
    /\ UNCHANGED <<partVars, buildVars, getVars, emitVars, stitchVars>>

\* A file becomes unreadable, or readable again.
EnvChange ==
    /\ \E n \in CacheFiles : env' = [env EXCEPT !.ok[n] = ~@]
    /\ UNCHANGED <<cache_, readers, calls, lost>>
    /\ UNCHANGED <<partVars, buildVars, getVars, emitVars, stitchVars>>

\* A caller calls NewIterator: lines 187-234 up to the first operation on
\* the cache or the environment.  preloaded: fd.table_reader is not null.
CallNewIterator(t) ==
    /\ calls[t].pc = "idle"
    /\ calls[t].iter = NoIterator
    /\ CanOpen
    /\ \E n \in CacheFiles, no_io \in BOOLEAN, create_new \in BOOLEAN,
          preloaded \in BOOLEAN :
           LET call == [IdleCall EXCEPT !.fd = n, !.no_io = no_io,
                                        !.op = "NewIterator",
                                        !.create_new_table_reader = create_new,
                                        !.held = calls[t].held]
           IN  IF create_new
               THEN /\ calls' = [calls EXCEPT ![t] = [call EXCEPT !.pc = "NewTableReader"]]
                    /\ UNCHANGED <<cache_, readers>>
               ELSE IF preloaded
               THEN /\ calls' = [calls EXCEPT ![t] = [call EXCEPT !.pc = "NewIterator"]]
                    /\ UNCHANGED <<cache_, readers>>
               ELSE \E r \in {FindLookup(CacheState, call)} :
                        /\ cache_' = r.c.cache_
                        /\ readers' = r.c.readers
                        /\ calls' = [calls EXCEPT ![t] = r.call]
    /\ UNCHANGED <<lost, env>>
    /\ UNCHANGED <<partVars, buildVars, getVars, emitVars, stitchVars>>

\* NewIterator, lines 213-222: the reader of its own.
NewIteratorOpen(t) ==
    /\ calls[t].pc = "NewTableReader"
    /\ IF OpenFails(env, calls[t].fd)
       THEN /\ calls' = [calls EXCEPT ![t].pc = "NewIterator", ![t].s = "IOError"]
            /\ UNCHANGED readers
       ELSE /\ readers' = Append(readers, TableReader(calls[t].fd))
            /\ calls' = [calls EXCEPT ![t].pc = "NewIterator",
                                      ![t].table_reader = Len(readers) + 1]
    /\ UNCHANGED <<cache_, lost, env>>
    /\ UNCHANGED <<partVars, buildVars, getVars, emitVars, stitchVars>>

\* Lines 235-319: the iterator and the cleanup registered on it (the table
\* filter decides only whether the iterator is empty); nullptr if s is not OK.
MakeResult(call) ==
    IF call.s # "OK" THEN NoIterator
    ELSE IF call.create_new_table_reader
    THEN Iterator("DeleteTableReader", call.table_reader)
    ELSE IF call.handle # NoHandle THEN Iterator("UnrefEntry", call.handle)
    ELSE Iterator("none", NoHandle)

\* `handle` after lines 304-311.
HandleAfterResult(call) == IF call.s = "OK" THEN NoHandle ELSE call.handle

\* NewIterator, lines 235-351.  range_del_ok: the range tombstone iterator,
\* if one is made, has status OK.
NewIteratorFinish(t) ==
    /\ calls[t].pc = "NewIterator"
    /\ \E range_del_ok \in {TRUE} \cup {b \in {FALSE} : BagCardinality(lost) < MaxLost} :
           LET call == calls[t]
               result == MakeResult(call)
               handle == HandleAfterResult(call)
               s == IF call.s = "OK" /\ ~range_del_ok THEN "Corruption" ELSE call.s
               c == IF handle # NoHandle THEN Release(CacheState, handle)
                    ELSE CacheState
           IN  /\ cache_' = c.cache_
               /\ readers' = c.readers
               /\ lost' = IF s # "OK" /\ result.cleanup \in {"UnrefEntry", "DeleteTableReader"}
                          THEN lost (+) SetToBag({result}) ELSE lost
               /\ calls' = [calls EXCEPT
                              ![t] = [Returned(call) EXCEPT
                                        !.s = s,
                                        !.iter = IF s = "OK" THEN result
                                                 ELSE Iterator("none", NoHandle)]]
    /\ UNCHANGED env
    /\ UNCHANGED <<partVars, buildVars, getVars, emitVars, stitchVars>>

\* The caller drops its iterator: the cleanup runs.
CallDropIterator(t) ==
    /\ calls[t].pc = "idle"
    /\ calls[t].iter # NoIterator
    /\ LET it == calls[t].iter
           c == IF it.cleanup = "UnrefEntry" THEN Release(CacheState, it.reader)
                ELSE IF it.cleanup = "DeleteTableReader"
                THEN [CacheState EXCEPT !.readers = Delete(@, it.reader)]
                ELSE CacheState
       IN  /\ cache_' = c.cache_
           /\ readers' = c.readers
    /\ calls' = [calls EXCEPT
                   ![t] = [IdleCall EXCEPT !.op = "DropIterator",
                                           !.held = calls[t].held]]
    /\ UNCHANGED <<lost, env>>
    /\ UNCHANGED <<partVars, buildVars, getVars, emitVars, stitchVars>>

CacheNext ==
    \/ \E t \in Threads, n \in CacheFiles, no_io \in BOOLEAN : CallFindTable(t, n, no_io)
    \/ \E t \in Threads : FindOpen(t)
    \/ \E t \in Threads : FindInsert(t)
    \/ \E t \in Threads, h \in 1..MaxReaders : CallReleaseHandle(t, h)
    \/ \E t \in Threads, h \in 1..MaxReaders : CallEraseHandle(t, h)
    \/ \E t \in Threads : EraseHandleErase(t)
    \/ \E t \in Threads : CallNewIterator(t)
    \/ \E t \in Threads : NewIteratorOpen(t)
    \/ \E t \in Threads : NewIteratorFinish(t)
    \/ \E t \in Threads : CallDropIterator(t)
    \/ Evict
    \/ EvictUnreferenced
    \/ EnvChange

CacheStart ==
    CacheInit /\ PartIdle /\ BuildIdle /\ GetIdle /\ EmitIdle /\ StitchIdle

CacheSpec == CacheStart /\ [][CacheNext]_vars

(***************************************************************************)
(* TableCache::Get.  The get context, the table reader of a data table and *)
(* the range scan of a map table are not part of the table cache: they are *)
(* modelled as the read path describes them.  A footer is 64 bits wide in  *)
(* the code and 24 bits here (16 of sequence number, 8 of type), so        *)
(* kMaxUint64 is 2^24 - 1.  The row cache is left out: it is not used for  *)
(* a map table and is optional for a data table.                           *)
(***************************************************************************)
kValueTypeForSeek == 17
kMaxUint64 == 16777215

\* The internal key of a user key and a footer.
FooterKey(u, footer) == InternalKey(u, footer \div 256, footer % 256)

Max(x, y) == IF x >= y THEN x ELSE y

\* GetContext as constructed: nothing found, no ceiling.
NewGetContext ==
    [state |-> "kNotFound", value |-> <<>>, min_seq_type |-> 0,
     is_finished |-> FALSE, may_exist |-> FALSE]

\* GetContext::SaveValue on a record the reader hands over: [ctx, matched].
\* A record of the user key whose footer is below the ceiling is masked.
SaveValue(ctx, uk, rec) ==
    IF rec.uk # uk \/ ExtractInternalKeyFooter(rec) < ctx.min_seq_type
    THEN ctx
    ELSE IF rec.type = kTypeDeletion
    THEN [ctx EXCEPT !.state = "kDeleted", !.is_finished = TRUE]
    ELSE [ctx EXCEPT !.state = "kFound", !.value = <<rec>>, !.is_finished = TRUE]

\* The position of the first key of a sorted sequence that is >= k
\* (Len + 1 if there is none): Seek(k).
SeekIn(keys, k) ==
    1 + Cardinality({i \in 1..Len(keys) : Compare(keys[i], k) < 0})

\* TableReader::Get(k, get_context) of data table n: the first record at or
\* after k is handed to the get context.
ReaderGet(n, k, ctx) ==
    LET i == SeekIn(Records(n), k)
    IN  IF i > Len(Records(n)) THEN ctx ELSE SaveValue(ctx, k.uk, Records(n)[i])

\* The keys of the entries of map table n: their largest keys.
MapKeys(n) == [i \in 1..Len(Files[n].elements) |-> Files[n].elements[i].largest_key_]

\* What a call of Get and the calls it makes have in common: the get
\* context, and the log of the lookups and of the callbacks.
GetState(ctx, st, log, handles) ==
    [ctx |-> ctx, s |-> st, log |-> log, handles |-> handles]

LookupEvent(n, k) == [op |-> "lookup", file |-> n, k |-> k]

\* A return of get_from_map on entry i of map table n: the ceiling at entry
\* and at the return, the key looked up with, what ended the callback and
\* what it returned.
Callback(n, i, k, enter, during, leave, find_k, how, more) ==
    [op |-> "callback", file |-> n, i |-> i, k |-> k, enter |-> enter,
     during |-> during, leave |-> leave, find_k |-> find_k, how |-> how,
     more |-> more]

Logged(g, ev) == [g EXCEPT !.log = Append(g.log, ev)]

\* Mutant of line 416: an empty dependence map is not looked at.
EmptyDependence_Ignored(e) == FALSE

\* Line 416: dependence_map.empty()
EmptyDependence(e) == e.dependence_map = {}

\* Mutant of RangeScan(&k, ...): the scan starts at the first entry.
ScanStart_First(n, k) == 1

\* RangeScan(&k, ...) seeks the map table's iterator to k.
ScanStart(n, k) == SeekIn(MapKeys(n), k)

\* Mutant of lines 522-526: Incomplete is handed to the caller.
NoReader_Incomplete(e, g) ==
    IF e.no_io THEN [g EXCEPT !.s = "Incomplete"] ELSE [g EXCEPT !.s = "IOError"]

\* Lines 383-391 and 522-526: FindTable did not give the reader.  With no_io
\* the status is Incomplete, the key is said to exist maybe, and s is OK.
NoReader(e, g) ==
    IF e.no_io
    THEN [g EXCEPT !.s = "OK", !.ctx.state = "kFound", !.ctx.may_exist = TRUE,
                   !.ctx.is_finished = e.may_exist_finishes]
    ELSE [g EXCEPT !.s = "IOError"]

\* Lines 381-390: the handle FindTable gives, unless the descriptor carries
\* the reader.
HasHandle(e, n) == n \notin e.inline /\ n \notin e.missing

\* Mutant of lines 527-529: the handle is released only if s is OK.
ReleaseHandleOf_IfOk(e, n, g) ==
    IF HasHandle(e, n) /\ g.s = "OK"
    THEN [g EXCEPT !.handles = Append(g.handles, <<"release", n>>)]
    ELSE g

\* Lines 527-529: if (handle != nullptr) ReleaseHandle(handle).
ReleaseHandleOf(e, n, g) ==
    IF HasHandle(e, n)
    THEN [g EXCEPT !.handles = Append(g.handles, <<"release", n>>)]
    ELSE g

\* Lines 365-378: the row cache is on, the table is no map table and the
\* row cache has the answer.
RowCacheHit(e, n) == Files[n].purpose # kMapSst /\ n \in e.row_cache

\* Lines 365-418 and 522-526: the row cache, the reader, and what Get does by
\* itself.  `returned` says Get returned from the row cache (line 378).  For
\* a map table with a dependence map, `where` is the entry RangeScan(&k)
\* starts at; otherwise it is 0 and Get is about to release and return.
Prologue(e, n, k, g) ==
    LET g0 == [g EXCEPT !.s = "OK"]
        g1 == IF HasHandle(e, n)
              THEN [g0 EXCEPT !.handles = Append(g.handles, <<"acquire", n>>)]
              ELSE g0
    IN  IF RowCacheHit(e, n)
        THEN [g |-> [g0 EXCEPT !.ctx = ReaderGet(n, k, g.ctx)], where |-> 0,
              returned |-> TRUE]
        ELSE IF n \notin e.inline /\ n \in e.missing
        THEN [g |-> NoReader(e, g0), where |-> 0, returned |-> FALSE]
        ELSE IF Files[n].purpose # kMapSst
        THEN [g |-> IF n \in e.read_error
                    THEN [g1 EXCEPT !.s = "IOError",
                                    !.log = Append(g.log, LookupEvent(n, k))]
                    ELSE [g1 EXCEPT !.ctx = ReaderGet(n, k, g.ctx),
                                    !.log = Append(g.log, LookupEvent(n, k))],
              where |-> 0, returned |-> FALSE]
        ELSE IF EmptyDependence(e)
        THEN [g |-> [g1 EXCEPT !.s = "Corruption: Composite sst depend files missing"],
              where |-> 0, returned |-> FALSE]
        ELSE [g |-> g1, where |-> ScanStart(n, k), returned |-> FALSE]

\* Lines 445-474: find_k, or the entry is out of the query's reach (skip).
FindKey(elem, k) ==
    LET smallest_key == elem.smallest_key_
        include_smallest == IF elem.include_smallest_ THEN 1 ELSE 0
        seq_type == ExtractInternalKeyFooter(smallest_key)
    IN  IF Compare(smallest_key, k) >= include_smallest
        THEN IF smallest_key.uk # k.uk THEN [skip |-> TRUE, find_k |-> k]
             ELSE IF elem.include_smallest_
             THEN [skip |-> FALSE, find_k |-> smallest_key]
             ELSE IF seq_type = 0 THEN [skip |-> TRUE, find_k |-> k]
             ELSE [skip |-> FALSE, find_k |-> FooterKey(smallest_key.uk, seq_type - 1)]
        ELSE [skip |-> FALSE, find_k |-> k]

\* Line 455: assert(ExtractInternalKeyFooter(k) > ExtractInternalKeyFooter(smallest_key))
\* is reached and does not hold.
FooterAssertFails(elem, k) ==
    /\ Compare(elem.smallest_key_, k) >= (IF elem.include_smallest_ THEN 1 ELSE 0)
    /\ elem.smallest_key_.uk = k.uk
    /\ ~(ExtractInternalKeyFooter(k) > ExtractInternalKeyFooter(elem.smallest_key_))

\* Mutant of lines 491-492: the ceiling is the largest footer, exclusive or not.
Ceiling_NoPlusOne(elem, backup) ==
    Max(backup, ExtractInternalKeyFooter(elem.largest_key_))

\* Mutant of lines 491-492: one is added for an inclusive largest key too.
Ceiling_PlusOneAlways(elem, backup) ==
    Max(backup, ExtractInternalKeyFooter(elem.largest_key_) + 1)

\* Lines 491-492: the ceiling for an entry whose largest key has the user key
\* of the query.
Ceiling(elem, backup) ==
    Max(backup, ExtractInternalKeyFooter(elem.largest_key_)
                    + (IF elem.include_largest_ THEN 0 ELSE 1))

\* Mutant of line 516: the ceiling is left as the entry set it.
Restore_Never(ctx, backup) == ctx

\* Line 516.
Restore(ctx, backup) == [ctx EXCEPT !.min_seq_type = backup]

\* Mutant of lines 501-505: a link that is not in the dependence map is
\* passed over.
MissingLink_Skipped(e, fn) == FALSE

\* Lines 501-502: dependence_map.find(file_number) == dependence_map.end().
MissingLink(e, fn) == fn \notin e.dependence_map

RECURSIVE Get(_, _, _, _)
RECURSIVE RangeScan(_, _, _, _, _)
RECURSIVE get_from_map(_, _, _, _, _)
RECURSIVE Links(_, _, _, _, _, _, _, _)

\* Lines 496-517: the links of entry i from link j on; [g, more].
Links(e, n, i, j, k, find_k, backup, g) ==
    LET elem == Files[n].elements[i]
        is_largest_user_key == elem.largest_key_.uk = k.uk
        ev(g1, how, more) ==
            Callback(n, i, k, backup,
                     IF is_largest_user_key THEN Ceiling(elem, backup) ELSE backup,
                     g1.ctx.min_seq_type, find_k, how, more)
    IN  IF j > Len(elem.link_)
        THEN \* lines 515-517
             LET g1 == [g EXCEPT !.ctx = Restore(g.ctx, backup)]
             IN  [g |-> Logged(g1, ev(g1, "end of links", is_largest_user_key)),
                  more |-> is_largest_user_key]
        ELSE IF MissingLink(e, elem.link_[j].file_number)
        THEN LET g1 == [g EXCEPT !.s = "Corruption: Map sst depend files missing"]
             IN  [g |-> Logged(g1, ev(g1, "missing", FALSE)), more |-> FALSE]
        ELSE LET g1 == Get(e, elem.link_[j].file_number, find_k, g)
             IN  IF g1.s # "OK" \/ g1.ctx.is_finished
                 THEN [g |-> Logged(g1, ev(g1, IF g1.s # "OK" THEN "error"
                                               ELSE "finished", FALSE)),
                       more |-> FALSE]
                 ELSE Links(e, n, i, j + 1, k, find_k, backup, g1)

\* Lines 420-518: the callback on entry i of map table n; [g, more].  The
\* entries of the tables are well formed (lines 422-442 find no fault).
\* Where the assertion of line 455 does not hold the callback goes on as a
\* build without assertions does, and the log says so.
get_from_map(e, n, i, k, g) ==
    LET elem == Files[n].elements[i]
        f == FindKey(elem, k)
        backup == g.ctx.min_seq_type
        is_largest_user_key == elem.largest_key_.uk = k.uk
        seq_type == ExtractInternalKeyFooter(elem.largest_key_)
        g0 == IF FooterAssertFails(elem, k)
              THEN Logged([g EXCEPT !.s = "OK"], [op |-> "assert", file |-> n, i |-> i])
              ELSE [g EXCEPT !.s = "OK"]
    IN  IF f.skip
        THEN [g |-> Logged(g0, Callback(n, i, k, backup, backup, backup, k,
                                        "out of smallest", FALSE)),
              more |-> FALSE]
        ELSE IF is_largest_user_key /\ seq_type = kMaxUint64 /\ ~elem.include_largest_
        THEN [g |-> Logged(g0, Callback(n, i, k, backup, backup, backup, f.find_k,
                                        "out of largest", TRUE)),
              more |-> TRUE]
        ELSE Links(e, n, i, 1, k, f.find_k, backup,
                   IF is_largest_user_key
                   THEN [g0 EXCEPT !.ctx.min_seq_type = Ceiling(elem, backup)]
                   ELSE g0)

\* TableReader::RangeScan(&k, callback) from entry i on: the callback on one
\* entry after the other while it returns true.
RangeScan(e, n, i, k, g) ==
    IF i > Len(Files[n].elements) THEN g
    ELSE LET r == get_from_map(e, n, i, k, g)
         IN  IF r.more THEN RangeScan(e, n, i + 1, k, r.g) ELSE r.g

\* TableCache::Get(file_meta = Files[n], dependence_map, k, get_context).
Get(e, n, k, g) ==
    LET p == Prologue(e, n, k, g)
    IN  IF p.returned THEN p.g
        ELSE ReleaseHandleOf(e, n, IF p.where = 0 THEN p.g
                                   ELSE RangeScan(e, n, p.where, k, p.g))

(***************************************************************************)
(* A call of Get as a state machine: the part before the range scan, one   *)
(* step for each entry the range scan of the given table hands to          *)
(* get_from_map (the calls of Get for the links are part of that step),    *)
(* and the return.                                                         *)
(***************************************************************************)
GetTables == {1, 8, 9, 10, 11, 12, 13, 15}
QueryUserKeys == {1, 2, 6, 7, 8}
QuerySeqs == {0, 2, 3, 4, 5, 7, 18, 20, 100}
QueryKeys == {InternalKey(u, q, kValueTypeForSeek) : u \in QueryUserKeys, q \in QuerySeqs}
DependenceMaps == {{}, {1}, {9}, {10, 14}, {9, 11}, {9, 10, 14}, {9, 10, 11, 14}}

\* What the environment decides: the tables whose reader cannot be had (not
\* in the cache with no_io, not to be opened without), whether a get context
\* that was told the key may exist counts as finished, the tables whose
\* descriptor carries the reader, the tables the row cache answers for, and
\* the tables whose reader fails to read.
GetEnv(d, io, ms, mf, il, rc, re) ==
    [dependence_map |-> d, no_io |-> io, missing |-> ms, may_exist_finishes |-> mf,
     inline |-> il, row_cache |-> rc, read_error |-> re]

GetEnvs(n) ==
    {GetEnv(x[1], x[2], x[3], x[4], {}, {}, {}) :
        x \in {y \in DependenceMaps \X BOOLEAN \X {{}, {n}, {9}} \X BOOLEAN :
                  y[4] => (y[2] /\ y[3] # {})}}
    \cup {GetEnv(x[1], FALSE, x[2], FALSE, x[3], x[4], x[5]) :
            x \in DependenceMaps \X {{}, {9}} \X {{}, {n}, {9}} \X {{}, {n}, {9}}
                     \X {{}, {9}}}

GetInit ==
    /\ PartIdle /\ BuildIdle /\ CacheIdle /\ EmitIdle /\ StitchIdle
    /\ \E n \in GetTables, k \in QueryKeys :
           \E e \in GetEnvs(n) : get_call = [n |-> n, k |-> k, e |-> e]
    /\ get_context = NewGetContext
    /\ get_status = "OK"
    /\ get_pc = "call"
    /\ get_where = 0
    /\ get_log = <<>>
    /\ get_handles = <<>>

GetCurrent == GetState(get_context, get_status, get_log, get_handles)

\* Lines 362-418 and 522-526.
GetBegin ==
    /\ get_pc = "call"
    /\ \E p \in {Prologue(get_call.e, get_call.n, get_call.k, GetCurrent)} :
           /\ get_context' = p.g.ctx
           /\ get_status' = p.g.s
           /\ get_log' = p.g.log
           /\ get_handles' = p.g.handles
           /\ get_where' = p.where
           /\ get_pc' = IF p.returned THEN "done"
                        ELSE IF p.where = 0 THEN "return" ELSE "scan"
    /\ UNCHANGED get_call
    /\ UNCHANGED <<partVars, buildVars, cacheVars, emitVars, stitchVars>>

\* Lines 519-520: RangeScan hands the next entry to get_from_map, or ends.
GetScan ==
    /\ get_pc = "scan"
    /\ IF get_where > Len(Files[get_call.n].elements)
       THEN /\ get_pc' = "return"
            /\ UNCHANGED <<get_context, get_status, get_log, get_where, get_handles>>
       ELSE \E r \in {get_from_map(get_call.e, get_call.n, get_where, get_call.k,
                                   GetCurrent)} :
                /\ get_context' = r.g.ctx
                /\ get_status' = r.g.s
                /\ get_log' = r.g.log
                /\ get_handles' = r.g.handles
                /\ get_where' = IF r.more THEN get_where + 1 ELSE get_where
                /\ get_pc' = IF r.more THEN "scan" ELSE "return"
    /\ UNCHANGED get_call
    /\ UNCHANGED <<partVars, buildVars, cacheVars, emitVars, stitchVars>>

\* Lines 527-530: the handle is released and s returned.
GetReturn ==
    /\ get_pc = "return"
    /\ get_pc' = "done"
    /\ get_handles' = ReleaseHandleOf(get_call.e, get_call.n, GetCurrent).handles
    /\ UNCHANGED <<get_call, get_context, get_status, get_log, get_where>>
    /\ UNCHANGED <<partVars, buildVars, cacheVars, emitVars, stitchVars>>

GetNext == GetBegin \/ GetScan \/ GetReturn

GetSpec == GetInit /\ [][GetNext]_vars

(***************************************************************************)
(* MapSstElementIterator.  ranges_ is a vector Build made: the ranges of   *)
(* tables as LoadRangeWithDepend gives them, merged or cut by the          *)
(* partitioner.  iterator_cache_ is the set of tables whose iterator has a *)
(* status that is not OK.  The offset ApproximateOffsetOf gives for a      *)
(* record grows by 4 from one record of the table to the next.             *)
(***************************************************************************)
\* merge_depend, the loop from the last link of d to the first:
\* [link_, insert_pos].
RECURSIVE merge_loop(_, _, _, _)
merge_loop(link_, d, r, insert_pos) ==
    IF r = 0 THEN link_
    ELSE LET found == {q \in 1..insert_pos : link_[q].file_number = d[r].file_number}
             new_pos == IF found = {} THEN insert_pos + 1
                        ELSE CHOOSE q \in found : \A q2 \in found : q <= q2
         IN  IF found = {}
             THEN merge_loop(SubSeq(link_, 1, insert_pos) \o <<d[r]>>
                                 \o SubSeq(link_, insert_pos + 1, Len(link_)),
                             d, r - 1, insert_pos)
             ELSE merge_loop(link_, d, r - 1, new_pos - 1)

\* Lines 217-233.
merge_depend(link_, d) == merge_loop(link_, d, Len(d), Len(link_))

\* Mutant of lines 236-237: the next entry is taken in when it begins where
\* this one ends.
FuseStart_AtEnd(cur, nxt) == Compare(cur.point[1], nxt.point[0]) = 0

\* Lines 236-237: the next entry begins at the key this one begins at.
FuseStart(cur, nxt) == Compare(cur.point[0], nxt.point[0]) = 0

\* Lines 246-247: the next entry ends at the key this one ends at.
FuseEnd(cur, nxt) == Compare(cur.point[1], nxt.point[1]) = 0

\* Mutant of lines 214, 243 and 252: no element is taken for stable.
StaysStable_Never(cur, a, b) == FALSE

\* Lines 214, 243 and 252: stable is that of the entry unless an entry was
\* taken in.
StaysStable(cur, a, b) == cur.stable /\ ~a /\ ~b

\* Mutant of line 304: the read amplification is that of the last element.
ReadAmp_Last(amp, e) == Len(e.link_)

\* Line 304: sst_read_amp_ = std::max(sst_read_amp_, map_elements_.link_.size())
ReadAmp(amp, e) == Max(amp, Len(e.link_))

\* MapBuilder::WriteOutputFile, lines 896-902: the dependence property is
\* the dependence set, sorted.
RECURSIVE WrittenDependence(_)
WrittenDependence(dep) ==
    IF dep = {} THEN <<>>
    ELSE LET least == CHOOSE x \in dep : \A y \in dep : x <= y
         IN  <<least>> \o WrittenDependence(dep \ {least})

\* Lines 207-255: the element of the entry at w with the entries after it
\* taken in: [e, stable, taken], taken the number of entries it is made of.
Fused(rs, w) ==
    LET cur == rs[w]
        e0 == [point |-> cur.point, include |-> cur.include,
               no_records |-> cur.no_records, link_ |-> cur.dependence]
        a == w + 1 <= Len(rs) /\ FuseStart(cur, rs[w + 1])
        e1 == IF a
              THEN [e0 EXCEPT !.point = Pair(e0.point[0], rs[w + 1].point[1]),
                              !.include = Pair(e0.include[0], rs[w + 1].include[1]),
                              !.link_ = merge_depend(e0.link_, rs[w + 1].dependence)]
              ELSE e0
        w1 == IF a THEN w + 2 ELSE w + 1
        b == w1 <= Len(rs) /\ FuseEnd(e1, rs[w1])
        e2 == IF b
              THEN [e1 EXCEPT !.include = Pair(e1.include[0], TRUE),
                              !.link_ = merge_depend(e1.link_, rs[w1].dependence)]
              ELSE e1
    IN  [e |-> e2, stable |-> StaysStable(cur, a, b),
         taken |-> (IF a THEN 2 ELSE 1) + (IF b THEN 1 ELSE 0)]

\* Lines 273, 278, 284 and 289, the four `continue`: the link is left as it is.
Unmeasured(link) == [size |-> link.size, records |-> FALSE]

\* Mutant of lines 293-301: records are reported only where the offsets of the
\* first and the last differ.
Measured_BySize(n, i, j) == [size |-> 4 * (j - i), records |-> j > i]

\* Lines 293-301: temp_start_ is record i of table n, temp_end_ record j.
Measured(n, i, j) ==
    IF i <= j THEN [size |-> 4 * (j - i), records |-> TRUE]
    ELSE [size |-> 0, records |-> FALSE]

\* Lines 270-301 for one link of the element e: [size, records].
LinkSize(e, link) ==
    LET n == link.file_number
        rec == Records(n)
        i0 == SeekIn(rec, e.point[0])
        i == IF i0 <= Len(rec) /\ ~e.include[0] /\ Compare(rec[i0], e.point[0]) = 0
             THEN i0 + 1 ELSE i0
        j0 == Cardinality({q \in 1..Len(rec) : Compare(rec[q], e.point[1]) <= 0})
        j == IF j0 >= 1 /\ ~e.include[1] /\ Compare(rec[j0], e.point[1]) = 0
             THEN j0 - 1 ELSE j0
    IN  IF i > Len(rec) \/ j < 1 THEN Unmeasured(link) ELSE Measured(n, i, j)

\* Lines 260-303: the links from link l on; [e, dependence, status].
RECURSIVE MeasureLinks(_, _, _, _)
MeasureLinks(e, l, dep, failing) ==
    IF l > Len(e.link_)
    THEN [e |-> e, dependence |-> dep, status |-> "OK", reached |-> l - 1]
    ELSE LET n == e.link_[l].file_number
             r == LinkSize(e, e.link_[l])
         IN  IF n \in failing
             THEN [e |-> e, dependence |-> dep \cup {n}, status |-> "IOError",
                   reached |-> l]
             ELSE MeasureLinks([e EXCEPT !.link_[l].size = r.size,
                                         !.no_records = e.no_records /\ ~r.records],
                               l + 1, dep \cup {n}, failing)

\* The vectors ranges_ may be: the ranges of one table, of two tables merged,
\* of such a vector with a range cut out.
EmitTables == {1, 2, 3, 4, 5, 6, 16, 17, 18, 19}

EmitCuts ==
    { <<Range(InternalKey(1, 9, 1), InternalKey(2, 7, 1), TRUE, TRUE)>>,
      <<Range(InternalKey(2, 3, 1), InternalKey(3, 5, 1), TRUE, FALSE)>>,
      <<Range(InternalKey(4, 3, 1), InternalKey(4, 3, 1), TRUE, TRUE)>> }

\* Two tables of one build share no data table.
Apart(x, y) ==
    /\ x # y
    /\ ({x} \cup LinkedFiles(x)) \cap ({y} \cup LinkedFiles(y)) = {}

EmitMerged ==
    {LoadRangeWithDepend(<<x>>) : x \in EmitTables} \cup
    {PartitionRangeWithDepend(LoadRangeWithDepend(<<p[1]>>),
                              LoadRangeWithDepend(<<p[2]>>), kMerge) :
        p \in {q \in EmitTables \X EmitTables :
                 /\ Apart(q[1], q[2])
                 /\ PartitionFault(LoadRangeWithDepend(<<q[1]>>),
                                   LoadRangeWithDepend(<<q[2]>>), kMerge) = "none"}}

\* A table with a range cut out and an added table merged in, as Build
\* does with deleted_range and added_files.
EmitAdded ==
    {PartitionRangeWithDepend(
         PartitionRangeWithDepend(LoadRangeWithDepend(<<p[1]>>), MaskRanges(p[3]),
                                  kDelete),
         LoadRangeWithDepend(<<p[2]>>), kMerge) :
        p \in {q \in {1, 2, 3} \X {1, 2, 3} \X EmitCuts :
                 /\ Apart(q[1], q[2])
                 /\ PartitionFault(LoadRangeWithDepend(<<q[1]>>), MaskRanges(q[3]),
                                   kDelete) = "none"
                 /\ PartitionRangeWithDepend(LoadRangeWithDepend(<<q[1]>>),
                                             MaskRanges(q[3]), kDelete) # <<>>
                 /\ PartitionFault(
                        PartitionRangeWithDepend(LoadRangeWithDepend(<<q[1]>>),
                                                 MaskRanges(q[3]), kDelete),
                        LoadRangeWithDepend(<<q[2]>>), kMerge) = "none"}}

EmitInputs ==
    EmitMerged \cup EmitAdded \cup
    {PartitionRangeWithDepend(p[1], MaskRanges(p[2]), kDelete) :
        p \in {q \in EmitMerged \X EmitCuts :
                 PartitionFault(q[1], MaskRanges(q[2]), kDelete) = "none"}}

EmitInit ==
    /\ PartIdle /\ BuildIdle /\ CacheIdle /\ GetIdle /\ StitchIdle
    /\ ranges_ \in EmitInputs \ {<<>>}
    /\ iterator_cache_ \in {{}, {3}, {4}}
    /\ where_ = 0
    /\ map_elements_ = <<>>
    /\ buffer_ = <<>>
    /\ status_ = "OK"
    /\ dependence_build_ = {}
    /\ sst_read_amp_ = 0
    /\ consumed = <<>>
    /\ opened = {}
    /\ emitted = <<>>

\* Lines 203-306 with where_ at w.
PrepareNext(w) ==
    IF w > Len(ranges_)
    THEN /\ buffer_' = <<>>
         /\ opened' = {}
         /\ UNCHANGED <<where_, map_elements_, status_, dependence_build_,
                        sst_read_amp_, consumed, emitted>>
    ELSE \E f \in {Fused(ranges_, w)} :
            /\ where_' = w + f.taken
            /\ consumed' = [q \in 1..f.taken |-> w + q - 1]
            /\ IF f.stable
               THEN /\ map_elements_' = f.e
                    /\ dependence_build_' = dependence_build_ \cup
                           {f.e.link_[l].file_number : l \in 1..Len(f.e.link_)}
                    /\ sst_read_amp_' = ReadAmp(sst_read_amp_, f.e)
                    /\ buffer_' = <<f.e>>
                    /\ opened' = {}
                    /\ emitted' = Append(emitted, f.e)
                    /\ UNCHANGED status_
               ELSE \E r \in {MeasureLinks([f.e EXCEPT !.no_records = TRUE], 1,
                                           dependence_build_, iterator_cache_)} :
                       /\ map_elements_' = r.e
                       /\ dependence_build_' = r.dependence
                       /\ status_' = IF r.status = "OK" THEN status_ ELSE r.status
                       /\ sst_read_amp_' = IF r.status = "OK"
                                           THEN ReadAmp(sst_read_amp_, r.e)
                                           ELSE sst_read_amp_
                       /\ buffer_' = IF r.status = "OK" THEN <<r.e>> ELSE <<>>
                       /\ opened' = {r.e.link_[l].file_number : l \in 1..r.reached}
                       /\ emitted' = IF r.status = "OK" THEN Append(emitted, r.e)
                                      ELSE emitted

\* Lines 187-190: SeekToFirst().
SeekToFirst ==
    /\ ranges_ # <<>> /\ where_ = 0
    /\ PrepareNext(1)
    /\ UNCHANGED <<ranges_, iterator_cache_>>
    /\ UNCHANGED <<partVars, buildVars, cacheVars, getVars, stitchVars>>

\* Line 191: Next(), called while Valid().
EmitNextElement ==
    /\ where_ > 0 /\ buffer_ # <<>>
    /\ PrepareNext(where_)
    /\ UNCHANGED <<ranges_, iterator_cache_>>
    /\ UNCHANGED <<partVars, buildVars, cacheVars, getVars, stitchVars>>

EmitNext == SeekToFirst \/ EmitNextElement

EmitSpec == EmitInit /\ [][EmitNext]_vars

(***************************************************************************)
(* MapElementIterator: the map elements of an array of tables in key       *)
(* order.  A data table gives one element, a map table its own entries     *)
(* through the iterator create_iter_ opens with an empty dependence map.   *)
(***************************************************************************)
\* FileDescriptor::GetFileSize() of the tables.
FileSize(n) == 100 + n

\* A default-constructed MapSstElement.
NoElement == MapSstElement(EmptyKey, EmptyKey, FALSE, FALSE, FALSE, <<>>)

MetaSize == Len(meta_array_)

\* meta_array_[w]
FileAt(w) == Files[meta_array_[w + 1]]

\* Mutant of Update: the element of a data table ends before its largest key.
FileElement_Exclusive(f) ==
    MapSstElement(f.smallest, f.largest, TRUE, FALSE, FALSE,
                  <<LinkTarget(f.number, FileSize(f.number))>>)

\* Lines 1140-1150: the element of a data table.
FileElement(f) ==
    MapSstElement(f.smallest, f.largest, TRUE, TRUE, FALSE,
                  <<LinkTarget(f.number, FileSize(f.number))>>)

\* Lines 1136-1153: Update().
Update(s) ==
    [s EXCEPT !.element = IF s.iter > 0 THEN FileAt(s.where).elements[s.iter]
                          ELSE FileElement(FileAt(s.where))]

\* Line 974: Valid().
Valid(s) == s.where < MetaSize

\* The end of the array: where_ = meta_size_, iter_.reset().
AtEnd(s) == [s EXCEPT !.where = MetaSize, !.iter = 0]

\* Lines 1126-1135 and the lines around each call: the table at where_
\* is entered at its first or at its last element.  A map table's iterator
\* may fail to open; where_ is then meta_size_ and iter_ keeps the iterator.
Enter(s, ok, first) ==
    IF FileAt(s.where).purpose = kMapSst
    THEN IF ~ok THEN [s EXCEPT !.where = MetaSize, !.iter = -1]
         ELSE Update([s EXCEPT !.iter = IF first THEN 1
                                        ELSE Len(FileAt(s.where).elements)])
    ELSE Update([s EXCEPT !.iter = 0])

\* Seek and SeekForPrev of a map table's own iterator: its entries are keyed
\* by their largest key.  0 and Len + 1 are the positions that are not valid.
InnerSeek(f, t) ==
    1 + Cardinality({i \in 1..Len(f.elements) :
                        Compare(f.elements[i].largest_key_, t) < 0})

InnerSeekForPrev(f, t) ==
    Cardinality({i \in 1..Len(f.elements) :
                    Compare(f.elements[i].largest_key_, t) <= 0})

\* Lines 975-1007: Seek(target).
ElementSeek(s, t, ok, ok2) ==
    LET w == Cardinality({i \in 1..MetaSize :
                             Compare(Files[meta_array_[i]].largest, t) < 0})
        s1 == [s EXCEPT !.where = w]
    IN  IF w = MetaSize THEN AtEnd(s)
        ELSE IF FileAt(w).purpose # kMapSst THEN Update([s1 EXCEPT !.iter = 0])
        ELSE IF ~ok THEN [s EXCEPT !.where = MetaSize, !.iter = -1]
        ELSE IF InnerSeek(FileAt(w), t) <= Len(FileAt(w).elements)
        THEN Update([s1 EXCEPT !.iter = InnerSeek(FileAt(w), t)])
        ELSE IF w + 1 = MetaSize THEN AtEnd(s)
        ELSE Enter([s EXCEPT !.where = w + 1, !.iter = 0], ok2, TRUE)

\* Lines 1008-1042: SeekForPrev(target).
ElementSeekForPrev(s, t, ok, ok2) ==
    LET u == Cardinality({i \in 1..MetaSize :
                             Compare(t, Files[meta_array_[i]].largest) >= 0})
        w == u - 1
        s1 == [s EXCEPT !.where = w]
    IN  IF u = 0 THEN AtEnd(s)
        ELSE IF FileAt(w).purpose # kMapSst THEN Update([s1 EXCEPT !.iter = 0])
        ELSE IF ~ok THEN [s EXCEPT !.where = MetaSize, !.iter = -1]
        ELSE IF InnerSeekForPrev(FileAt(w), t) >= 1
        THEN Update([s1 EXCEPT !.iter = InnerSeekForPrev(FileAt(w), t)])
        ELSE IF w = 0 THEN AtEnd(s)
        ELSE Enter([s EXCEPT !.where = w - 1, !.iter = 0], ok2, FALSE)

\* Lines 1043-1054: SeekToFirst().
ElementSeekToFirst(s, ok) == Enter([s EXCEPT !.where = 0], ok, TRUE)

\* Lines 1055-1066: SeekToLast().
ElementSeekToLast(s, ok) == Enter([s EXCEPT !.where = MetaSize - 1], ok, FALSE)

\* Lines 1067-1089: Next().
ElementNext(s, ok) ==
    IF s.iter > 0 /\ s.iter < Len(FileAt(s.where).elements)
    THEN Update([s EXCEPT !.iter = s.iter + 1])
    ELSE IF s.where + 1 = MetaSize THEN AtEnd(s)
    ELSE Enter([s EXCEPT !.where = s.where + 1], ok, TRUE)

\* Lines 1090-1113: Prev().
ElementPrev(s, ok) ==
    IF s.iter > 1
    THEN Update([s EXCEPT !.iter = s.iter - 1])
    ELSE IF s.where = 0 THEN AtEnd(s)
    ELSE Enter([s EXCEPT !.where = s.where - 1], ok, FALSE)

\* The arrays a level gives: tables in key order that do not overlap, data
\* tables alone and with map tables among them (a map table alone is not
\* given to this iterator, lines 1174-1177).
StitchArrays ==
    { <<1>>, <<1, 2>>, <<1, 2, 4>>, <<1, 2, 4, 7>>, <<2, 4, 7, 14>>, <<18, 2>>,
      <<5, 4>>, <<1, 2, 16>>, <<5, 16, 7>>, <<8, 2, 19>> }

StitchTargets ==
    { InternalKey(1, 9, 1), InternalKey(2, 5, 1), InternalKey(4, 4, 1),
      InternalKey(9, 1, 1) }

\* Lines 962-973: the constructor.
StitchInit ==
    /\ PartIdle /\ BuildIdle /\ CacheIdle /\ GetIdle /\ EmitIdle
    /\ meta_array_ \in StitchArrays
    /\ array_where_ = Len(meta_array_)
    /\ iter_ = 0
    /\ element_ = NoElement
    /\ history = <<>>
    /\ walk = [from |-> "other", elements |-> <<>>]

StitchState == [where |-> array_where_, iter |-> iter_, element |-> element_]

\* What an operation left: whether the iterator is valid, and at which element.
Snapshot(op, s) ==
    [op |-> op, valid |-> Valid(s), element |-> IF Valid(s) THEN s.element ELSE NoElement]

\* The operation op has taken the iterator to s.
Moved(op, s) ==
    /\ array_where_' = s.where
    /\ iter_' = s.iter
    /\ element_' = s.element
    /\ history' = IF Len(history) < 3 THEN Append(history, Snapshot(op, s))
                  ELSE Append(Tail(history), Snapshot(op, s))
    /\ walk' = IF op = "SeekToFirst"
               THEN [from |-> "first",
                     elements |-> IF Valid(s) THEN <<s.element>> ELSE <<>>]
               ELSE IF op = "SeekToLast"
               THEN [from |-> "last",
                     elements |-> IF Valid(s) THEN <<s.element>> ELSE <<>>]
               ELSE IF \/ (op = "Next" /\ walk.from = "first")
                       \/ (op = "Prev" /\ walk.from = "last")
               THEN [walk EXCEPT !.elements = IF Valid(s) THEN Append(@, s.element)
                                              ELSE @]
               ELSE [from |-> "other", elements |-> <<>>]
    /\ UNCHANGED meta_array_
    /\ UNCHANGED <<partVars, buildVars, cacheVars, getVars, emitVars>>

StitchSeek ==
    \E t \in StitchTargets, ok \in BOOLEAN, ok2 \in BOOLEAN :
        Moved("Seek", ElementSeek(StitchState, t, ok, ok2))

StitchSeekForPrev ==
    \E t \in StitchTargets, ok \in BOOLEAN, ok2 \in BOOLEAN :
        Moved("SeekForPrev", ElementSeekForPrev(StitchState, t, ok, ok2))

StitchSeekToFirst ==
    \E ok \in BOOLEAN : Moved("SeekToFirst", ElementSeekToFirst(StitchState, ok))

StitchSeekToLast ==
    \E ok \in BOOLEAN : Moved("SeekToLast", ElementSeekToLast(StitchState, ok))

\* Next() and Prev() are called while Valid().
StitchNext ==
    /\ Valid(StitchState)
    /\ \E ok \in BOOLEAN : Moved("Next", ElementNext(StitchState, ok))

StitchPrev ==
    /\ Valid(StitchState)
    /\ \E ok \in BOOLEAN : Moved("Prev", ElementPrev(StitchState, ok))

StitchStep ==
    \/ StitchSeek
    \/ StitchSeekForPrev
    \/ StitchSeekToFirst
    \/ StitchSeekToLast
    \/ StitchNext
    \/ StitchPrev

StitchSpec == StitchInit /\ [][StitchStep]_vars

(***************************************************************************)
(* Coverage.  Positions 2i are the keys of KeySpace, odd positions the     *)
(* keys strictly between two of them.                                      *)
(***************************************************************************)
KeyIndex(k) == 1 + Cardinality({i \in 1..Len(KeySpace) : Compare(KeySpace[i], k) < 0})
LoPos(r) == 2 * KeyIndex(r.point[0]) + (IF r.include[0] THEN 0 ELSE 1)
HiPos(r) == 2 * KeyIndex(r.point[1]) - (IF r.include[1] THEN 0 ELSE 1)
Positions == 1..(2 * Len(KeySpace) + 1)
Covers(r, p) == LoPos(r) <= p /\ p <= HiPos(r)
Covered(v, p) == \E i \in 1..Len(v) : Covers(v[i], p)
Covering(v, p) == {i \in 1..Len(v) : Covers(v[i], p)}

Done == pc = "done"

\* C1: the vector returned by PartitionRangeWithDepend (MERGE and DELETE) is
\* sorted by upper endpoint, its intervals are pairwise non-overlapping (two
\* intervals share a key only if at most one of the touching endpoints is
\* inclusive), and every interval has point[0] <= point[1].
C1_SortedNonOverlap ==
    Done =>
        /\ \A i \in 1..Len(output) :
              Compare(output[i].point[0], output[i].point[1]) <= 0
        /\ \A i, j \in 1..Len(output) :
              i < j =>
                /\ Compare(output[i].point[1], output[j].point[1]) <= 0
                /\ \/ Compare(output[i].point[1], output[j].point[0]) < 0
                   \/ /\ Compare(output[i].point[1], output[j].point[0]) = 0
                      /\ ~(output[i].include[1] /\ output[j].include[0])

C1_Witness ==
    /\ Done
    /\ Len(output) >= 3
    /\ \E i \in 1..(Len(output) - 1) :
          Compare(output[i].point[1], output[i + 1].point[0]) = 0

C3_DeleteCoverage ==
    Done /\ type = kDelete =>
        /\ \A p \in Positions :
              Covered(output, p) <=> (Covered(ranges_a, p) /\ ~Covered(ranges_b, p))
        /\ \A i \in 1..Len(output) :
              \E j \in 1..Len(ranges_a) :
                  /\ LoPos(ranges_a[j]) <= LoPos(output[i])
                  /\ HiPos(output[i]) <= HiPos(ranges_a[j])
                  /\ output[i].dependence = ranges_a[j].dependence
                  /\ output[i].no_records = ranges_a[j].no_records

C3_Witness ==
    /\ Done /\ type = kDelete
    /\ Len(output) >= 2
    /\ \E p \in Positions : Covered(ranges_a, p) /\ Covered(ranges_b, p)
    /\ \E i \in 1..Len(output) : output[i].no_records

\* C4: in MERGE, at every point of every output interval the link list is A's
\* links followed by B's links when both cover the point, and the covering
\* side's links when only one does.
C4_MergeLinks ==
    Done /\ type = kMerge =>
        \A i \in 1..Len(output) : \A p \in Positions :
            Covers(output[i], p) =>
                LET ca == Covering(ranges_a, p)
                    cb == Covering(ranges_b, p)
                    da == IF ca = {} THEN <<>>
                          ELSE ranges_a[CHOOSE j \in ca : TRUE].dependence
                    db == IF cb = {} THEN <<>>
                          ELSE ranges_b[CHOOSE j \in cb : TRUE].dependence
                IN  /\ ca # {} \/ cb # {}
                    /\ output[i].dependence = da \o db

C4_Witness ==
    /\ Done /\ type = kMerge
    /\ \E i \in 1..Len(output) : Len(output[i].dependence) >= 3
    /\ \E i \in 1..Len(output) : Len(output[i].dependence) = 1

\* C6: in every partitioner output (MERGE or DELETE) an interval with
\* stable = true equals, in endpoints, inclusivity, link list and no_records,
\* one stable interval of an input vector, and no part of it is covered by
\* the other input vector (it was not split, truncated or combined).
StableFrom(o, v, w) ==
    \E j \in 1..Len(v) :
        /\ v[j].stable
        /\ o = v[j]
        /\ \A p \in Positions : Covers(o, p) => ~Covered(w, p)

C6_StableUnchanged ==
    Done =>
        \A i \in 1..Len(output) :
            output[i].stable =>
                \/ StableFrom(output[i], ranges_a, ranges_b)
                \/ StableFrom(output[i], ranges_b, ranges_a)

C6_Witness ==
    /\ Done
    /\ \E i \in 1..Len(output) : output[i].stable
    /\ \E i \in 1..Len(output) :
          /\ ~output[i].stable
          /\ \E j \in 1..Len(ranges_a) :
                ranges_a[j].stable /\ Covers(ranges_a[j], LoPos(output[i]))

\* The endpoints compared at the head of the loop, as brackets.
Bracket(b, i) ==
    IF b = 0 THEN (IF i THEN "[" ELSE "(") ELSE (IF i THEN "]" ELSE ")")
BothLeft == pc = "loop" /\ ai < Len(ranges_a) /\ bi < Len(ranges_b)
CurA == ranges_a[ai + 1]
CurB == ranges_b[bi + 1]
CurC == Compare(CurA.point[ab], CurB.point[bb])
CurBrA == Bracket(ab, CurA.include[ab])
CurBrB == Bracket(bb, CurB.include[bb])
CurResult == CompInclude(CurC, ab, CurA.include[ab], bb, CurB.include[bb])

\* C7 as stated: at equal keys ')' orders before '[' and ']' before '(',
\* two endpoints of the same bracket kind compare equal, and for c # 0 the
\* result is c.
C7_AsStated ==
    BothLeft =>
        /\ (CurC # 0 => CurResult = CurC)
        /\ (CurC = 0 /\ CurBrA = CurBrB => CurResult = 0)
        /\ (CurC = 0 /\ CurBrA = ")" /\ CurBrB = "[" => CurResult < 0)
        /\ (CurC = 0 /\ CurBrA = "[" /\ CurBrB = ")" => CurResult > 0)
        /\ (CurC = 0 /\ CurBrA = "]" /\ CurBrB = "(" => CurResult < 0)
        /\ (CurC = 0 /\ CurBrA = "(" /\ CurBrB = "]" => CurResult > 0)

\* C7 amended: at equal keys a left-inclusive '[' orders before a
\* right-exclusive ')' and a left-exclusive '(' orders before a
\* right-inclusive ']'; two endpoints of the same bracket kind compare
\* equal, and for c # 0 the result is c.
C7_CompInclude ==
    BothLeft =>
        /\ (CurC # 0 => CurResult = CurC)
        /\ (CurC = 0 /\ CurBrA = CurBrB => CurResult = 0)
        /\ (CurC = 0 /\ CurBrA = "[" /\ CurBrB = ")" => CurResult < 0)
        /\ (CurC = 0 /\ CurBrA = ")" /\ CurBrB = "[" => CurResult > 0)
        /\ (CurC = 0 /\ CurBrA = "(" /\ CurBrB = "]" => CurResult < 0)
        /\ (CurC = 0 /\ CurBrA = "]" /\ CurBrB = "(" => CurResult > 0)

C7_Witness ==
    BothLeft /\ CurC = 0 /\ CurBrA = "]" /\ CurBrB = "(" /\ CurResult > 0

\* C8: MERGE of A = [a,m] with B = (m,z] yields exactly two intervals, [a,m]
\* with only A's links and (m,z] with only B's links.
C8_Premise ==
    /\ type = kMerge
    /\ Len(ranges_a) = 1 /\ Len(ranges_b) = 1
    /\ ranges_a[1].include[0] /\ ranges_a[1].include[1]
    /\ ~ranges_b[1].include[0] /\ ranges_b[1].include[1]
    /\ Compare(ranges_a[1].point[1], ranges_b[1].point[0]) = 0

C8_TouchingNotFused ==
    Done /\ C8_Premise =>
        /\ Len(output) = 2
        /\ output[1].point = ranges_a[1].point
        /\ output[1].include = ranges_a[1].include
        /\ output[1].dependence = ranges_a[1].dependence
        /\ output[2].point = ranges_b[1].point
        /\ output[2].include = ranges_b[1].include
        /\ output[2].dependence = ranges_b[1].dependence

C8_Witness ==
    Done /\ C8_Premise /\ Compare(ranges_a[1].point[0], ranges_a[1].point[1]) < 0

\* C5: link lists contain no duplicate file numbers: from inputs whose own
\* link lists are duplicate-free, no interval of a partition output has the
\* same file number twice in its link list.
NoDuplicateLinks(d) ==
    \A x, y \in 1..Len(d) : x # y => d[x].file_number # d[y].file_number

C5_NoDuplicateLinks ==
    /\ \A i \in 1..Len(ranges_a) : NoDuplicateLinks(ranges_a[i].dependence)
    /\ \A i \in 1..Len(ranges_b) : NoDuplicateLinks(ranges_b[i].dependence)
    /\ (Done => \A i \in 1..Len(output) : NoDuplicateLinks(output[i].dependence))

\* C9: MERGE of two single inclusive intervals [a1,b1] (links F1) and
\* [a2,b2] (links F2) with a1 < a2 < b1 < b2 yields exactly [a1,a2) with F1,
\* [a2,b1] with F1 then F2, and (b1,b2] with F2, all with stable = false.
C9_Premise ==
    /\ type = kMerge
    /\ Len(ranges_a) = 1 /\ Len(ranges_b) = 1
    /\ ranges_a[1].include = Pair(TRUE, TRUE)
    /\ ranges_b[1].include = Pair(TRUE, TRUE)
    /\ Compare(ranges_a[1].point[0], ranges_b[1].point[0]) < 0
    /\ Compare(ranges_b[1].point[0], ranges_a[1].point[1]) < 0
    /\ Compare(ranges_a[1].point[1], ranges_b[1].point[1]) < 0

C9_TwoFileOverlap ==
    Done /\ C9_Premise =>
        LET a == ranges_a[1]
            b == ranges_b[1]
        IN  /\ Len(output) = 3
            /\ output[1].point = Pair(a.point[0], b.point[0])
            /\ output[1].include = Pair(TRUE, FALSE)
            /\ output[1].dependence = a.dependence
            /\ output[2].point = Pair(b.point[0], a.point[1])
            /\ output[2].include = Pair(TRUE, TRUE)
            /\ output[2].dependence = a.dependence \o b.dependence
            /\ output[3].point = Pair(a.point[1], b.point[1])
            /\ output[3].include = Pair(FALSE, TRUE)
            /\ output[3].dependence = b.dependence
            /\ \A i \in 1..3 : ~output[i].stable

C9_Witness ==
    Done /\ C9_Premise /\ ranges_a[1].stable /\ ranges_b[1].stable

(***************************************************************************)
(* Build: the short-circuit.                                               *)
(***************************************************************************)
BuildDone == build_pc = "done" /\ status = "OK"

Survivor == level_ranges[1]

\* An interval that is the whole of data file n: both bounds, both inclusive.
WholeFile(r, n) ==
    /\ Files[n].purpose = kEssenceSst
    /\ r.include[0] /\ r.include[1]
    /\ r.point[0] = Files[n].smallest
    /\ r.point[1] = Files[n].largest

\* Every interval of the survivor has one link and is the whole of that file.
AllPreface ==
    /\ level_ranges # <<>>
    /\ \A i \in 1..Len(Survivor) :
           /\ Len(Survivor[i].dependence) = 1
           /\ WholeFile(Survivor[i], Survivor[i].dependence[1].file_number)

SurvivingFiles == {Survivor[i].dependence[1].file_number : i \in 1..Len(Survivor)}

Added(level, n) == CopiesIn(<<level, n>>, edit.new_files)
AddedAnywhere(n) == \E l \in -1..MaxLevel : Added(l, n) > 0
Deleted(level, n) == <<level, n>> \in edit.deleted

\* No map table was written and no file number was taken.
NoMapWritten == next_file_number = FirstFileNumber /\ file_meta = <<>>

\* The edits that leave each surviving file at output_level once and delete
\* every other input file.
MovedToOutputLevel ==
    /\ \A x \in AllInputFiles(inputs) :
           IF x[2] \in SurvivingFiles
           THEN IF x[1] = output_level
                THEN ~Deleted(x[1], x[2]) /\ ~AddedAnywhere(x[2])
                ELSE Deleted(x[1], x[2]) /\ Added(output_level, x[2]) = 1
           ELSE Deleted(x[1], x[2]) /\ ~AddedAnywhere(x[2])
    /\ \A n \in SurvivingFiles \ InputNumbers(inputs) : Added(output_level, n) = 1
    /\ edit.deleted \subseteq AllInputFiles(inputs)
    /\ \A y \in BagToSet(edit.new_files) :
           y[1] = output_level /\ y[2] \in SurvivingFiles

\* C10 as stated: whenever every interval of the survivor has exactly one link
\* and is a preface range of that data file, Build writes no map table, takes
\* no file number and emits only the edits that leave each surviving file at
\* output_level once and delete every other input file, for every output_level
\* and every number of survivor intervals.
C10_AsStated == BuildDone /\ AllPreface => NoMapWritten /\ MovedToOutputLevel

\* C10 amended: the same, when output_level is not 0 or the survivor has one
\* interval.  A surviving input file already at output_level gets no edit, one
\* at another level DeleteFile there and one AddFile at output_level, a
\* surviving file that is no input one AddFile at output_level.
C10_ShortCircuit ==
    BuildDone /\ AllPreface /\ (output_level # 0 \/ Len(Survivor) = 1)
        => NoMapWritten /\ MovedToOutputLevel

\* A build done whose survivor is two whole files, one moved from its input
\* level to output_level, with an input file that does not survive.
C10_Witness ==
    /\ BuildDone /\ AllPreface /\ output_level # 0
    /\ Len(Survivor) = 2
    /\ \E x \in AllInputFiles(inputs) :
           x[2] \in SurvivingFiles /\ x[1] # output_level
    /\ \E x \in AllInputFiles(inputs) : x[2] \notin SurvivingFiles

(***************************************************************************)
(* Build: the stability check.                                             *)
(***************************************************************************)
\* All files of all input levels, as a set of file numbers, are one map table.
OneMapInput ==
    /\ Cardinality(InputNumbers(inputs)) = 1
    /\ \A n \in InputNumbers(inputs) : Files[n].purpose = kMapSst

TheInputMap == CHOOSE n \in InputNumbers(inputs) : TRUE

\* The survivor has as many intervals as the input map has entries, all stable.
SurvivorStable ==
    /\ level_ranges # <<>>
    /\ Len(Survivor) = Len(Files[TheInputMap].elements)
    /\ \A i \in 1..Len(Survivor) : Survivor[i].stable

NoEdit == edit = EmptyEdit /\ deleted_files = {}

\* Build is past load, merge, delete and add and about to choose how to return.
AtCheck == build_pc = "check"

\* Build returns OK with no file written and nothing added to the edit.
ReturnsUnchanged ==
    /\ build_pc' = "done" /\ status' = "OK"
    /\ NoMapWritten' /\ NoEdit'

\* C11 as stated: when the only input of Build is a single map table, the
\* survivor has as many intervals as that map has entries and every survivor
\* interval is stable, Build returns OK without writing a file and without
\* adding any AddFile/DeleteFile to the edit, and the survivor equals,
\* interval by interval, the vector loaded from the input map.
C11_AsStated ==
    [][AtCheck /\ OneMapInput /\ SurvivorStable
         => /\ ReturnsUnchanged
            /\ Survivor = LoadRangeWithDepend(<<TheInputMap>>)]_vars

\* C11 amended: the same, when inputs has exactly one level and the
\* short-circuit does not apply, that is, output_level is 0 with two or more
\* survivor intervals or some interval is not the whole of its one data file.
C11_StableReturn ==
    [][(/\ AtCheck /\ OneMapInput /\ SurvivorStable
        /\ Len(inputs) = 1
        /\ ~(AllPreface /\ (output_level # 0 \/ Len(Survivor) = 1)))
         => /\ ReturnsUnchanged
            /\ Survivor = LoadRangeWithDepend(<<TheInputMap>>)]_vars

\* A build of the one map table 6 (three entries, none a whole file) with an
\* added file or a deleted range that leaves the entries as they are.
C11_Witness ==
    /\ BuildDone /\ OneMapInput /\ SurvivorStable /\ Len(inputs) = 1
    /\ ~AllPreface
    /\ output_level # inputs[1].level
    /\ deleted_range # <<>>
    /\ NoMapWritten /\ NoEdit

(***************************************************************************)
(* Build: deleted ranges.                                                  *)
(***************************************************************************)
\* The one input is a map table of one entry [a,z] with one link, the one
\* deleted range is [a,z] with both ends inclusive, and no file is added.
ExactDelete ==
    /\ OneMapInput
    /\ Len(Files[TheInputMap].elements) = 1
    /\ LET e == Files[TheInputMap].elements[1]
       IN  /\ e.include_smallest_ /\ e.include_largest_
           /\ Len(e.link_) = 1
           /\ deleted_range = <<Range(e.smallest_key_, e.largest_key_, TRUE, TRUE)>>
    /\ added_files = <<>>

\* C12: Build with one input map whose single interval [a,z] links F1, a
\* deleted_range equal to [a,z] with both ends inclusive and no added files
\* produces an empty survivor: the edit contains DeleteFile for every input
\* file and no AddFile, no output file is written and OK is returned.
C12_ExactDelete ==
    [][AtCheck /\ ExactDelete
         => /\ level_ranges = <<>>
            /\ build_pc' = "done" /\ status' = "OK"
            /\ NoMapWritten'
            /\ edit'.deleted = AllInputFiles(inputs)
            /\ edit'.new_files = EmptyBag]_vars

(***************************************************************************)
(* Build: the edit after a map table was written.                          *)
(***************************************************************************)
MapWritten == BuildDone /\ file_meta # <<>> /\ file_meta[1].written

IsInputFile(level, n) ==
    \E i \in 1..Len(inputs) :
        /\ inputs[i].level = level
        /\ \E j \in 1..Len(inputs[i].files) : inputs[i].files[j] = n

IsAddedFile(n) == \E j \in 1..Len(added_files) : added_files[j] = n

\* C13: when Build writes a new map table successfully, the edit contains
\* DeleteFile(level, number) for every file of every input level, AddFile for
\* every added file and exactly one AddFile of the new map table, at
\* output_level; no other file is added or deleted.
C13_WriteEdit ==
    MapWritten =>
        /\ \A l \in 0..MaxLevel, n \in 1..Len(Files) :
               Deleted(l, n) <=> IsInputFile(l, n)
        /\ \A x \in edit.deleted : x[1] \in 0..MaxLevel /\ x[2] \in 1..Len(Files)
        /\ \A n \in 1..Len(Files) : IsAddedFile(n) => Added(-1, n) = 1
        /\ Added(output_level, file_meta[1].number) = 1
        /\ \A y \in BagToSet(edit.new_files) :
               \/ y = <<output_level, file_meta[1].number>>
               \/ y[1] = -1 /\ IsAddedFile(y[2])

\* A map table written from two input levels and an added file.
C13_Witness ==
    /\ MapWritten
    /\ Len(inputs) = 2 /\ inputs[1].files # <<>> /\ inputs[2].files # <<>>
    /\ added_files # <<>>
    /\ output_level = 1

(***************************************************************************)
(* Build: errors.                                                          *)
(***************************************************************************)
\* Build returned a non-OK status.
BuildFailed == build_pc = "done" /\ status \in {"IOError", "SpaceLimit"}

\* C14: whenever Build returns a non-OK status (a load failure of the inputs
\* or of the added files, a failure while the map table is written, or the
\* space limit reached), the edit has no AddFile and no DeleteFile of this
\* build and deleted_files is unchanged.
C14_ErrorNoEdit ==
    BuildFailed =>
        /\ edit.new_files = EmptyBag
        /\ edit.deleted = {}
        /\ deleted_files = {}

\* A build that failed after the file number was taken and the map table
\* was written: the space limit was reached.
C14_Witness ==
    /\ BuildFailed /\ status = "SpaceLimit"
    /\ next_file_number > FirstFileNumber
    /\ file_meta # <<>> /\ file_meta[1].written
    /\ added_files # <<>>


(***************************************************************************)
(* The table cache: FindTable.                                             *)
(***************************************************************************)

\* The call of thread t returned status st to its caller in this step.
ReturnsStatus(t, st) == calls'[t].pc = "idle" /\ calls'[t].s = st

\* Thread t went on to open the file in this step.
GoesToOpen(t) == calls'[t].pc = "GetTableReader"

\* C15: FindTable with no_io set on a file number the cache has no entry for
\* returns Incomplete and no handle, opens no file (no reader comes into
\* being and the call does not reach GetTableReader) and leaves the cache
\* as it was.
C15_NoIoMiss ==
    [][\A t \in Threads, n \in CacheFiles :
          (CallFindTable(t, n, TRUE) /\ cache_[n] = NoHandle)
              => /\ ReturnsStatus(t, "Incomplete")
                 /\ calls'[t].handle = NoHandle
                 /\ calls'[t].held = calls[t].held
                 /\ ~GoesToOpen(t)
                 /\ readers' = readers
                 /\ cache_' = cache_]_vars

\* A FindTable call has returned Incomplete and the file has no entry.
C15_Witness ==
    \E t \in Threads :
        /\ calls[t].op = "FindTable"
        /\ calls[t].pc = "idle"
        /\ calls[t].s = "Incomplete"
        /\ cache_[calls[t].fd] = NoHandle

\* C16: a failed open in FindTable returns the error and inserts nothing for
\* the file number; a later FindTable without no_io on the same file number
\* goes to the open again although an open failed before, and that open
\* succeeds if the file is readable by then: the call returns OK with a
\* handle to a fresh reader the cache maps the file number to.
C16_ErrorNotCached ==
    [][\A t \in Threads :
          /\ (FindOpen(t) /\ ~env.ok[calls[t].fd])
                 => /\ calls'[t].s = "IOError"
                    /\ calls'[t].handle = NoHandle
                    /\ calls'[t].held = calls[t].held
                    /\ readers' = readers
                    /\ cache_' = cache_
          /\ \A n \in CacheFiles :
                 (CallFindTable(t, n, FALSE) /\ cache_[n] = NoHandle /\ env.failed[n])
                     => GoesToOpen(t)
          /\ (FindOpen(t) /\ env.ok[calls[t].fd] /\ env.failed[calls[t].fd])
                 => /\ calls'[t].pc = "Insert"
                    /\ calls'[t].s = "OK"
                    /\ readers' = Append(readers, TableReader(calls[t].fd))
          /\ (FindInsert(t) /\ calls[t].op = "FindTable")
                 => /\ ReturnsStatus(t, "OK")
                    /\ calls'[t].held = calls[t].held (+) SetToBag({calls[t].table_reader})
                    /\ cache_'[calls[t].fd] = calls[t].table_reader
                    /\ readers'[calls[t].table_reader].deleted = 0]_vars

\* An open failed in FindTable, and a later FindTable call on the same file
\* number has returned OK with a handle to the reader the cache holds.
C16_Witness ==
    \E t \in Threads, n \in CacheFiles :
        /\ env.failed[n]
        /\ calls[t].op = "FindTable"
        /\ calls[t].pc = "idle"
        /\ calls[t].s = "OK"
        /\ cache_[n] # NoHandle
        /\ BagIn(cache_[n], calls[t].held)
        /\ readers[cache_[n]].deleted = 0


(***************************************************************************)
(* The table cache: lifetime of the readers.                               *)
(***************************************************************************)

\* The handles on reader h thread t owns: those its caller holds, the one of
\* its call in progress and the one its iterator releases when dropped.
OwnHandles(t, h) ==
    CopiesIn(h, calls[t].held)
    + (IF calls[t].handle = h THEN 1 ELSE 0)
    + (IF calls[t].iter = Iterator("UnrefEntry", h) THEN 1 ELSE 0)

RECURSIVE HandlesUpTo(_, _)
HandlesUpTo(t, h) == IF t = 0 THEN 0 ELSE OwnHandles(t, h) + HandlesUpTo(t - 1, h)

\* The handles on reader h that some thread owns.
OwnedHandles(h) == HandlesUpTo(MaxThreads, h)

\* The handles on reader h that were not released, owned or not.
Unreleased(h) == OwnedHandles(h) + CopiesIn(Iterator("UnrefEntry", h), lost)

\* The readers a thread may dereference: through a handle
\* (GetTableReaderFromHandle), through its iterator, or as the reader it
\* has just built.
Reachable(t) ==
    (BagToSet(calls[t].held)
        \cup {calls[t].handle, calls[t].table_reader, calls[t].iter.reader}
        \cup {cache_[n] : n \in CacheFiles}) \ {NoHandle}

\* C17: under every interleaving of FindTable, NewIterator, ReleaseHandle,
\* EraseHandle, Evict and iterator drops a reader is destroyed at most once,
\* only when no handle on it is left unreleased, and no reader a thread can
\* still dereference (through a handle it holds, through its iterator or
\* through the cache) has been destroyed.
C17_ReaderLifetime ==
    /\ \A h \in 1..Len(readers) :
           /\ readers[h].deleted <= 1
           /\ readers[h].deleted = 1 =>
                  /\ Unreleased(h) = 0
                  /\ readers[h].refs = 0
                  /\ ~readers[h].in_cache
    /\ \A t \in Threads : \A h \in Reachable(t) : readers[h].deleted = 0

\* One reader was destroyed, and another one, put out of the cache while a
\* handle on it is held, is alive.
C17_Witness ==
    \E h, g \in 1..Len(readers) :
        /\ readers[h].deleted = 1
        /\ readers[g].deleted = 0
        /\ ~readers[g].in_cache
        /\ OwnedHandles(g) > 0


(***************************************************************************)
(* The table cache: two threads open the same file.                        *)
(***************************************************************************)

\* Thread t inserts its reader while the cache maps the file number to the
\* reader another thread inserted after t's lookup had missed.
LosingInsert(t) == FindInsert(t) /\ cache_[calls[t].fd] # NoHandle

\* Reader h is as it was.
Unaffected(h) == readers'[h] = readers[h]

\* C18: when two threads have missed on the same file number and both have
\* opened the file, the second insert returns OK with a handle like the
\* first did; the cache then maps the file number to the reader inserted
\* last and to no other; the reader inserted first stays usable while its
\* handle is held, and is destroyed, once, by the release of that handle,
\* which leaves the other reader as it was.
C18_ConcurrentMiss ==
    [][\A t \in Threads :
          /\ LosingInsert(t) =>
                 \E old \in {cache_[calls[t].fd]}, new \in {calls[t].table_reader} :
                     /\ old # new
                     /\ readers[old].number = readers[new].number
                     /\ calls'[t].s = "OK"
                     /\ calls[t].op = "FindTable" =>
                            calls'[t].held = calls[t].held (+) SetToBag({new})
                     /\ cache_' = [cache_ EXCEPT ![calls[t].fd] = new]
                     /\ readers'[new].deleted = 0
                     /\ readers'[new].refs = 1
                     /\ readers'[old].replaced
                     /\ ~readers'[old].in_cache
                     /\ readers'[old].refs = readers[old].refs
                     /\ readers'[old].deleted = IF readers[old].refs = 0 THEN 1 ELSE 0
          /\ \A h \in 1..Len(readers) :
                 (CallReleaseHandle(t, h) /\ readers[h].replaced) =>
                     /\ readers'[h].deleted = IF readers[h].refs = 1 THEN 1 ELSE 0
                     /\ \A g \in 1..Len(readers) \ {h} : Unaffected(g)
                     /\ cache_' = cache_]_vars

\* Both inserts were made; the reader that lost was destroyed by the release
\* of its handle, and the other one is still the cache's and still held.
C18_Witness ==
    \E t \in Threads, h, g \in 1..Len(readers) :
        /\ readers[h].replaced /\ readers[h].deleted = 1
        /\ cache_[readers[h].number] = g
        /\ readers[g].deleted = 0
        /\ BagIn(g, calls[t].held)


(***************************************************************************)
(* The table cache: EraseHandle.                                           *)
(***************************************************************************)

\* C19: EraseHandle(fd, handle) releases the handle once and leaves the
\* cache without an entry for fd's file number; a FindTable that finds the
\* cache so goes to open the file if no_io is not set, and the reader it
\* inserts is a fresh one; with no_io set it returns Incomplete.
C19_EraseReopens ==
    [][\A t \in Threads :
          /\ \A h \in 1..Len(readers) :
                 CallEraseHandle(t, h) =>
                     /\ readers'[h].refs = readers[h].refs - 1
                     /\ calls'[t].held (+) SetToBag({h}) = calls[t].held
                     /\ calls'[t].pc = "Erase"
                     /\ calls'[t].fd = readers[h].number
          /\ EraseHandleErase(t) =>
                 /\ cache_'[calls[t].fd] = NoHandle
                 /\ calls'[t].pc = "idle"
                 /\ calls'[t].held = calls[t].held
                 /\ \A no_io \in BOOLEAN :
                        LET r == FindLookup([cache_ |-> cache_', readers |-> readers'],
                                            [IdleCall EXCEPT !.fd = calls[t].fd,
                                                             !.no_io = no_io,
                                                             !.op = "FindTable"])
                        IN  IF no_io
                            THEN r.call.pc = "idle" /\ r.call.s = "Incomplete"
                            ELSE r.call.pc = "GetTableReader"
          /\ (FindOpen(t) /\ env.ok[calls[t].fd]) =>
                 /\ calls'[t].table_reader = Len(readers) + 1
                 /\ readers'[Len(readers) + 1] = TableReader(calls[t].fd)
          /\ FindInsert(t) =>
                 cache_'[calls[t].fd] = calls[t].table_reader]_vars

\* EraseHandle has returned: the reader it released the last handle of was
\* destroyed and the file number has no entry.
C19_Witness ==
    \E t \in Threads, h \in 1..Len(readers) :
        /\ calls[t].op = "EraseHandle"
        /\ calls[t].pc = "idle"
        /\ readers[h].deleted = 1
        /\ cache_[readers[h].number] = NoHandle


(***************************************************************************)
(* The table cache: NewIterator.                                           *)
(***************************************************************************)

\* Reader h is owned: a call in progress holds it as its unique_ptr, or an
\* iterator a caller holds destroys it when dropped.
Owned(h) ==
    \E t \in Threads :
        \/ calls[t].table_reader = h
        \/ calls[t].iter = Iterator("DeleteTableReader", h)

\* C20: on every exit path of NewIterator each handle the call acquired is
\* released by the time it returns or is released by the cleanup of the
\* iterator it returns, and a reader the call made for itself is destroyed
\* by that cleanup: at every moment each handle not yet released belongs to
\* a caller, to a call in progress or to an iterator a caller holds, and
\* so does each living reader that is neither the cache's nor referenced.
C20_HandlesReleased ==
    \A h \in 1..Len(readers) :
        /\ readers[h].refs = OwnedHandles(h)
        /\ (readers[h].deleted = 0 /\ ~readers[h].in_cache /\ readers[h].refs = 0)
               => Owned(h)

\* The same, as long as no range tombstone iterator has failed after the
\* table iterator was made.
C20_ButForRangeDel == lost = EmptyBag => C20_HandlesReleased


(***************************************************************************)
(* TableCache::Get.  The claims are about a call that has returned; the    *)
(* log of the call holds the lookups in data tables and the callbacks on   *)
(* map entries in the order they ended.                                    *)
(***************************************************************************)
GetDone == get_pc = "done"

IsMap(n) == Files[n].purpose = kMapSst

\* FindTable gave the reader of the table Get was called on.
GotReader == get_call.n \notin get_call.e.missing

CallbackAt(i) == get_log[i].op = "callback"

LookupAt(i) == get_log[i].op = "lookup"

EntryOf(cb) == Files[cb.file].elements[cb.i]

\* The callback went into the links of its entry.
Processed(cb) == cb.how \notin {"out of smallest", "out of largest"}

CompositeMissing == "Corruption: Composite sst depend files missing"

MapMissing == "Corruption: Map sst depend files missing"

FirstLinkAbsent ==
    /\ IsMap(get_call.n) /\ GotReader /\ get_call.e.dependence_map # {}
    /\ \E i \in {ScanStart(get_call.n, get_call.k)} :
          /\ i <= Len(Files[get_call.n].elements)
          /\ \E elem \in {Files[get_call.n].elements[i]} :
                /\ ~FindKey(elem, get_call.k).skip
                /\ ~(/\ elem.largest_key_.uk = get_call.k.uk
                     /\ ExtractInternalKeyFooter(elem.largest_key_) = kMaxUint64
                     /\ ~elem.include_largest_)
                /\ elem.link_[1].file_number \notin get_call.e.dependence_map

\* C22 (as the code has it): Get returns Corruption("Map sst depend files
\* missing") when the loop over the links of a processed entry comes to a link
\* whose file number is not in the dependence map, which happens when every
\* link before it was looked up without an error and without finishing the
\* get context; after that no link is looked up and no entry is processed,
\* the callbacks that are open return.  The first link of the first entry
\* processed being absent, nothing is looked up at all.
C22_MissingLinkReached ==
    GetDone =>
        /\ \A i \in DOMAIN get_log :
              (CallbackAt(i) /\ get_log[i].how = "missing")
                  => /\ get_status = MapMissing
                     /\ \A j \in DOMAIN get_log :
                           j > i => (CallbackAt(j) /\ get_log[j].how = "error")
        /\ FirstLinkAbsent
              => (get_status = MapMissing /\ \A j \in DOMAIN get_log : ~LookupAt(j))

\* A link was looked up without a result and the one after it is absent.
C22_Witness ==
    /\ GetDone /\ get_status = MapMissing
    /\ \E i, j \in DOMAIN get_log :
          /\ i < j /\ LookupAt(i)
          /\ CallbackAt(j) /\ get_log[j].how = "missing"

\* C22 as stated: a processed entry that names an absent link makes Get
\* return the Corruption.
C22_AnyAbsentLink ==
    GetDone =>
        \A i \in DOMAIN get_log :
            (/\ CallbackAt(i) /\ Processed(get_log[i])
             /\ \E l \in DOMAIN EntryOf(get_log[i]).link_ :
                   EntryOf(get_log[i]).link_[l].file_number
                       \notin get_call.e.dependence_map)
                => get_status = MapMissing

\* The bound of an entry whose largest key has the user key of the query.
LargestBound(elem) ==
    ExtractInternalKeyFooter(elem.largest_key_) + (IF elem.include_largest_ THEN 0 ELSE 1)

\* C23: the links of a processed entry whose largest key has the user key of
\* the query are looked up with a ceiling of at least the largest key's
\* footer, plus one if the largest key is exclusive, and a record found
\* through the entry has a footer of at least that; the query 7@5 on the
\* entry [7@20, 7@5) over a table with 7@18 and 7@3 finds nothing.
C23_Ceiling ==
    GetDone =>
        /\ \A i \in DOMAIN get_log :
              (/\ CallbackAt(i) /\ Processed(get_log[i])
               /\ EntryOf(get_log[i]).largest_key_.uk = get_log[i].k.uk)
                  => /\ get_log[i].during >= LargestBound(EntryOf(get_log[i]))
                     /\ (get_log[i].how = "finished" /\ get_context.value # <<>>)
                           => ExtractInternalKeyFooter(get_context.value[1])
                                  >= LargestBound(EntryOf(get_log[i]))
        /\ (/\ get_call.n = 11 /\ get_call.k = InternalKey(7, 5, kValueTypeForSeek)
            /\ get_call.e.missing = {} /\ get_call.e.read_error = {}
            /\ 9 \in get_call.e.dependence_map)
              => (get_context.state = "kNotFound" /\ get_status = "OK")

\* The query 7@5 on the entry [7@20, 7@5): the table of the link was looked
\* into under the ceiling of the entry.
C23_Witness ==
    /\ GetDone /\ get_call.n = 11
    /\ get_call.k = InternalKey(7, 5, kValueTypeForSeek)
    /\ get_context.state = "kNotFound"
    /\ \E i, j \in DOMAIN get_log :
          /\ i < j /\ LookupAt(i) /\ get_log[i].file = 9
          /\ CallbackAt(j) /\ get_log[j].during = LargestBound(EntryOf(get_log[j]))
          /\ ~EntryOf(get_log[j]).include_largest_

\* C24 (as the code has it): the ceiling is put back to the value it had when
\* the callback was entered only when the callback returns after all links
\* of the entry were looked up without an error and without finishing the
\* get context (and when the entry is out of the query's reach, the ceiling
\* not having been touched); a callback that returns because a link is
\* absent, a lookup failed or the get context is finished leaves the ceiling
\* at the value the entry raised it to or above.
C24_RestoredAtEndOfLinks ==
    GetDone =>
        \A i \in DOMAIN get_log :
            CallbackAt(i) =>
                IF get_log[i].how \in {"end of links", "out of smallest", "out of largest"}
                THEN get_log[i].leave = get_log[i].enter
                ELSE get_log[i].leave >= get_log[i].during

\* An entry raised the ceiling, its links had nothing and it put it back.
C24_Witness ==
    /\ GetDone
    /\ \E i \in DOMAIN get_log :
          /\ CallbackAt(i) /\ get_log[i].how = "end of links"
          /\ get_log[i].during > get_log[i].enter
          /\ get_log[i].leave = get_log[i].enter

\* C24 as stated: every callback returns with the ceiling it was entered
\* with.
C24_AlwaysRestored ==
    GetDone =>
        \A i \in DOMAIN get_log :
            CallbackAt(i) => get_log[i].leave = get_log[i].enter

\* C25 as stated: the key looked up in the links is the smallest key, or the
\* smallest key with the footer less one, only where the smallest key has the
\* user key of the query and sorts after the query key; the entry is passed
\* over where the footer is 0 or the user keys differ; in every other case
\* the key looked up is the key of the query.
C25_FindKeyAsStated ==
    GetDone =>
        \A i \in DOMAIN get_log :
            CallbackAt(i) =>
                \E elem \in {EntryOf(get_log[i])}, k \in {get_log[i].k} :
                    IF Compare(elem.smallest_key_, k) > 0 /\ elem.smallest_key_.uk = k.uk
                    THEN IF elem.include_smallest_
                         THEN get_log[i].find_k = elem.smallest_key_
                               /\ get_log[i].how # "out of smallest"
                         ELSE IF ExtractInternalKeyFooter(elem.smallest_key_) = 0
                         THEN get_log[i].how = "out of smallest"
                         ELSE get_log[i].find_k =
                                  FooterKey(k.uk, ExtractInternalKeyFooter(elem.smallest_key_) - 1)
                               /\ get_log[i].how # "out of smallest"
                    ELSE IF Compare(elem.smallest_key_, k) > 0
                    THEN get_log[i].how = "out of smallest"
                    ELSE /\ get_log[i].find_k = k
                         /\ get_log[i].how # "out of smallest"
                         /\ \A j \in DOMAIN get_log : get_log[j].op # "assert"

\* C26 (as the code has it): the query 7@4 on the map table with the one
\* entry [7@20, 7@5) linking the table of 7@18 and 7@3 finds nothing: the
\* entry's largest key sorts before the query key, the range scan hands no
\* entry to the callback and no table is looked into.
C26_OutsideWindow ==
    (/\ GetDone /\ get_call.n = 11 /\ get_call.k = InternalKey(7, 4, kValueTypeForSeek)
     /\ get_call.e.missing = {} /\ 9 \in get_call.e.dependence_map)
        => /\ get_status = "OK"
           /\ get_context = NewGetContext
           /\ get_log = <<>>

C26_Witness ==
    /\ GetDone /\ get_call.n = 11
    /\ get_call.k = InternalKey(7, 4, kValueTypeForSeek)
    /\ get_call.e.missing = {} /\ 9 \in get_call.e.dependence_map
    /\ get_context.state = "kNotFound"

\* C26 as stated: the query 7@4 returns the record 7@3.
C26_ReturnsBelowWindow ==
    (/\ GetDone /\ get_call.n = 11 /\ get_call.k = InternalKey(7, 4, kValueTypeForSeek)
     /\ get_call.e.missing = {} /\ 9 \in get_call.e.dependence_map)
        => /\ get_context.state = "kFound"
           /\ get_context.value = <<InternalKey(7, 3, 1)>>

\* The map tables that have one entry, from the smallest to the largest key
\* of the data table of its one link, both inclusive; and that data table.
CoveringPairs == {<<8, 1>>, <<12, 9>>}

\* What a call of Get gives the caller.
Outcome(st, ctx) == <<st, ctx.state, ctx.value>>

\* C27: Get through a map table whose one entry covers the data table F of
\* its one link from smallest to largest key, both inclusive, gives for every
\* query key the same status and the same record, or none, as Get on F, the
\* dependence map holding F and the readers being there.
C27_SameAsDirect ==
    \A p \in CoveringPairs :
        (/\ GetDone /\ get_call.n = p[1]
         /\ get_call.e.missing = {} /\ get_call.e.read_error = {}
         /\ p[2] \in get_call.e.dependence_map)
            => Outcome(get_status, get_context)
                   = Outcome("OK", ReaderGet(p[2], get_call.k, NewGetContext))

\* A query below the smallest key of the entry found the last record of the
\* table through the map.
C27_Witness ==
    /\ GetDone /\ get_call.n = 12
    /\ get_call.k = InternalKey(7, 4, kValueTypeForSeek)
    /\ get_context.state = "kFound"
    /\ get_context.value = <<InternalKey(7, 3, 1)>>
    /\ \E i \in DOMAIN get_log : CallbackAt(i) /\ get_log[i].how = "finished"


(***************************************************************************)
(* MapSstElementIterator.  The claims are about the element the iterator   *)
(* stands at; consumed holds the positions in ranges_ of the entries it    *)
(* was made of.                                                            *)
(***************************************************************************)
Emitted == where_ > 0 /\ buffer_ # <<>>

\* The element was made as a non-stable one: of several entries, or of an
\* entry that is not stable.
EmittedUnstable ==
    /\ Emitted
    /\ (Len(consumed) > 1 \/ ~ranges_[consumed[1]].stable)

IsConsumed(c) == \E q \in DOMAIN consumed : consumed[q] = c

\* y begins at the key x ends at, one of the two including the key.
Touching(x, y) ==
    /\ Compare(x.point[1], y.point[0]) = 0
    /\ x.include[1] # y.include[0]

IsPoint(x) ==
    /\ Compare(x.point[0], x.point[1]) = 0
    /\ x.include[0] /\ x.include[1]

\* The file numbers of a link list.
Numbers(links) == [l \in DOMAIN links |-> links[l].file_number]

\* A sequence with only the first occurrence of each of its members.
RECURSIVE FirstOccurrences(_)
FirstOccurrences(s) ==
    IF s = <<>> THEN <<>>
    ELSE LET front == FirstOccurrences(SubSeq(s, 1, Len(s) - 1))
         IN  IF \E q \in DOMAIN front : front[q] = s[Len(s)]
             THEN front ELSE Append(front, s[Len(s)])

\* The members of s that are members of t, in the order of s.
Among(s, t) == SelectSeq(s, LAMBDA x : \E q \in DOMAIN t : t[q] = x)

RECURSIVE AllLinks(_)
AllLinks(c) ==
    IF c = <<>> THEN <<>>
    ELSE Numbers(ranges_[Head(c)].dependence) \o AllLinks(Tail(c))

\* C28 (as the code has it): the entry an element begins with takes in the
\* entry after it when it is a point [m,m] and that entry begins, exclusive,
\* at m; what that gives takes in the entry after it when it ends, exclusive,
\* at a key m and that entry is the point [m,m]; nothing else is merged.  The
\* element spans the entries taken in.  Its link list holds the file numbers
\* of their link lists, each once, those of the first entry in the order of
\* that entry and those of each entry taken in in the order of that entry.
C28_PointFusion ==
    Emitted =>
        \E w \in {consumed[1]} :
          \E a \in {/\ w + 1 <= Len(ranges_)
                    /\ IsPoint(ranges_[w])
                    /\ Compare(ranges_[w + 1].point[0], ranges_[w].point[0]) = 0
                    /\ ~ranges_[w + 1].include[0]} :
            \E w1 \in {IF a THEN w + 2 ELSE w + 1} :
              \E b \in {/\ w1 <= Len(ranges_)
                        /\ IsPoint(ranges_[w1])
                        /\ Compare(ranges_[w1 - 1].point[1], ranges_[w1].point[0]) = 0
                        /\ ~ranges_[w1 - 1].include[1]} :
                /\ consumed = [q \in 1..((IF a THEN 2 ELSE 1) + (IF b THEN 1 ELSE 0))
                                  |-> w + q - 1]
                /\ map_elements_.point[0] = ranges_[w].point[0]
                /\ map_elements_.include[0] = ranges_[w].include[0]
                /\ map_elements_.point[1] = ranges_[consumed[Len(consumed)]].point[1]
                /\ map_elements_.include[1] = ranges_[consumed[Len(consumed)]].include[1]
                /\ \E got \in {Numbers(map_elements_.link_)} :
                      /\ Seq2Set(got) = Seq2Set(AllLinks(consumed))
                      /\ got = FirstOccurrences(got)
                      /\ \A q \in DOMAIN consumed :
                            Among(got, Numbers(ranges_[consumed[q]].dependence))
                                = Numbers(ranges_[consumed[q]].dependence)

\* An element made of two entries whose link lists are not the same.
C28_Witness ==
    /\ Emitted /\ Len(consumed) = 2
    /\ Numbers(ranges_[consumed[1]].dependence) # Numbers(ranges_[consumed[2]].dependence)

\* C28 as stated: of two touching entries neither is the last of one element
\* with the other the first of the next, and the link list of an element is
\* that of its entries one after the other, each file number at its first
\* occurrence.
C28_TouchingFused ==
    Emitted =>
        /\ \A c \in 1..(Len(ranges_) - 1) :
              (Touching(ranges_[c], ranges_[c + 1]) /\ IsConsumed(c))
                  => IsConsumed(c + 1)
        /\ Numbers(map_elements_.link_) = FirstOccurrences(AllLinks(consumed))

\* Table n has a record inside the interval of the element e.
HasRecordInside(n, e) ==
    \E q \in DOMAIN Records(n) :
        /\ Compare(e.point[0], Records(n)[q]) < (IF e.include[0] THEN 1 ELSE 0)
        /\ Compare(Records(n)[q], e.point[1]) < (IF e.include[1] THEN 1 ELSE 0)

\* C29 as stated: a link of a non-stable element whose table has no record
\* inside the element's interval has the size 0.
C29_NoRecordsNoSize ==
    EmittedUnstable =>
        \A l \in DOMAIN map_elements_.link_ :
            ~HasRecordInside(map_elements_.link_[l].file_number, map_elements_)
                => map_elements_.link_[l].size = 0

\* C30: a non-stable element has no_records exactly if none of the tables of
\* its links has a record inside its interval, whatever no_records the
\* entries it was made of had.
C30_NoRecords ==
    EmittedUnstable =>
        (map_elements_.no_records
            <=> \A l \in DOMAIN map_elements_.link_ :
                   ~HasRecordInside(map_elements_.link_[l].file_number, map_elements_))

\* A non-stable element whose no_records is not that of the entry it began
\* with.
C30_Witness ==
    /\ EmittedUnstable
    /\ map_elements_.link_ # <<>>
    /\ map_elements_.no_records # ranges_[consumed[1]].no_records


\* C31: an element made of one stable entry alone has the entry's endpoints,
\* inclusivity, no_records and link list, sizes included, and no iterator was
\* asked for to make it, even where the iterator of a link has a status that
\* is not OK.
C31_StableUntouched ==
    (Emitted /\ Len(consumed) = 1 /\ ranges_[consumed[1]].stable)
        => /\ map_elements_.point = ranges_[consumed[1]].point
           /\ map_elements_.include = ranges_[consumed[1]].include
           /\ map_elements_.no_records = ranges_[consumed[1]].no_records
           /\ map_elements_.link_ = ranges_[consumed[1]].dependence
           /\ opened = {}

\* A stable entry with a link of a size other than 0, which measuring would
\* not leave alone.
C31_Witness ==
    /\ Emitted /\ Len(consumed) = 1 /\ ranges_[consumed[1]].stable
    /\ \E l \in DOMAIN map_elements_.link_ :
          map_elements_.link_[l].size # LinkSize(map_elements_, map_elements_.link_[l]).size

\* The iterator came to the end of ranges_ with status OK.
Exhausted == where_ > Len(ranges_) /\ buffer_ = <<>> /\ status_ = "OK"

EmittedNumbers ==
    UNION {Seq2Set(Numbers(emitted[q].link_)) : q \in DOMAIN emitted}

\* C32: after the iterator came to the end of ranges_, GetReadAmp is the
\* largest length of the link list of an element it emitted (0 if it emitted
\* none), GetDependence is the set of the file numbers in the link lists of
\* the elements it emitted, and the dependence property written is that set
\* in strictly ascending order.
C32_ReadAmpAndDependence ==
    Exhausted =>
        /\ \A q \in DOMAIN emitted : sst_read_amp_ >= Len(emitted[q].link_)
        /\ (emitted = <<>> /\ sst_read_amp_ = 0)
              \/ \E q \in DOMAIN emitted : sst_read_amp_ = Len(emitted[q].link_)
        /\ dependence_build_ = EmittedNumbers
        /\ \E d \in {WrittenDependence(dependence_build_)} :
              /\ Seq2Set(d) = EmittedNumbers
              /\ \A q \in 1..(Len(d) - 1) : d[q] < d[q + 1]

\* Several elements, the last with fewer links than one before it.
C32_Witness ==
    /\ Exhausted /\ Len(emitted) >= 2
    /\ Len(emitted[Len(emitted)].link_) < sst_read_amp_
    /\ Cardinality(dependence_build_) >= 2


\* Claim C34.  Get on a data table whose reader FindTable does not give: with
\* the block-cache-only read tier nothing is read, the get context is told
\* the key may exist and the status is OK, not Incomplete; with another read
\* tier the failure of FindTable is the status and the context is untouched.
C34_NoReader ==
    (/\ GetDone /\ ~IsMap(get_call.n)
     /\ get_call.n \in get_call.e.missing
     /\ get_call.n \notin get_call.e.inline \cup get_call.e.row_cache)
        => /\ get_log = <<>>
           /\ get_handles = <<>>
           /\ IF get_call.e.no_io
              THEN /\ get_status = "OK"
                   /\ get_context.may_exist
                   /\ get_context.state = "kFound"
                   /\ get_context.value = <<>>
              ELSE /\ get_status = "IOError"
                   /\ get_context = NewGetContext

C34_Witness ==
    /\ GetDone /\ ~IsMap(get_call.n)
    /\ get_call.n \in get_call.e.missing
    /\ get_call.e.no_io
    /\ get_status = "OK" /\ get_context.may_exist

\* The handle events are those of calls that nest: a release is of the
\* handle acquired last and not yet released.
RECURSIVE OpenHandles(_, _, _)
OpenHandles(h, j, open) ==
    IF j > Len(h) THEN open
    ELSE IF h[j][1] = "acquire" THEN OpenHandles(h, j + 1, Append(open, h[j][2]))
    ELSE IF open # <<>> /\ open[Len(open)] = h[j][2]
    THEN OpenHandles(h, j + 1, SubSeq(open, 1, Len(open) - 1))
    ELSE <<0>>

\* Claim C40.  Each call of Get, the calls made for link targets and the
\* calls that end in Corruption or IOError among them, releases the handle
\* FindTable gave it once before it returns; the handle of a table is taken
\* for each lookup in it, and none is taken for a table whose descriptor
\* carries the reader or for which the row cache answers.
C40_HandlesReleased ==
    /\ \A j \in DOMAIN get_handles :
           /\ get_handles[j][2] \notin get_call.e.inline
           /\ ~RowCacheHit(get_call.e, get_handles[j][2])
    /\ GetDone => OpenHandles(get_handles, 1, <<>>) = <<>>
    /\ get_pc = "scan"
          => OpenHandles(get_handles, 1, <<>>)
               = IF get_call.n \in get_call.e.inline THEN <<>> ELSE <<get_call.n>>
    /\ \A t \in GetTables \cup {9} :
           (GetDone /\ ~IsMap(t) /\ t \notin get_call.e.inline)
              => Cardinality({j \in DOMAIN get_log : LookupAt(j) /\ get_log[j].file = t})
                   = Cardinality({j \in DOMAIN get_handles :
                                    get_handles[j] = <<"release", t>>})

C40_Witness ==
    /\ GetDone
    /\ get_status = "IOError"
    /\ get_handles = <<<<"acquire", 11>>, <<"acquire", 9>>,
                       <<"release", 9>>, <<"release", 11>>>>


\* The first adjacent pair of least combined length.
FirstLeastPair(lr, i) ==
    /\ \A j \in 1..(i - 1) :
           Len(lr[j]) + Len(lr[j + 1]) > Len(lr[i]) + Len(lr[i + 1])
    /\ \A j \in (i + 1)..(Len(lr) - 1) :
           Len(lr[j]) + Len(lr[j + 1]) >= Len(lr[i]) + Len(lr[i + 1])

\* One iteration of the merge loop on lr gives next: pair i is replaced, in
\* its place, by the MERGE of its left vector as A and its right one as B.
MergedAt(lr, i, next) ==
    /\ Len(next) = Len(lr) - 1
    /\ \A j \in 1..(i - 1) : next[j] = lr[j]
    /\ next[i] = PartitionRangeWithDepend(lr[i], lr[i + 1], kMerge)
    /\ \A j \in (i + 1)..Len(next) : next[j] = lr[j + 1]

C35_Step ==
    (build_pc = "merge" /\ Len(level_ranges) > 1)
        => /\ level_ranges' # level_ranges
           /\ build_pc' = "merge"
           /\ \E i \in 1..(Len(level_ranges) - 1) :
                  /\ FirstLeastPair(level_ranges, i)
                  /\ MergedAt(level_ranges, i, level_ranges')

\* Claim C35.  Each iteration of the merge loop of Build replaces the first
\* adjacent pair of vectors of least combined length by their MERGE, the
\* left one as A and the right one as B, where the pair stood; the list is
\* one shorter and the other vectors keep their order.  If a vector was
\* loaded the loop ends, with one vector.
C35_MergeLoop ==
    /\ [][C35_Step]_vars
    /\ (build_pc = "merge" /\ level_ranges # <<>>)
          ~> (build_pc = "merge" /\ Len(level_ranges) = 1)

\* Four vectors of 3, 1, 1 and 1 ranges were loaded; the second and the third
\* were merged first, and one vector is left.
C35_Witness ==
    /\ inputs = <<CompactionInputFiles(0, <<6, 4, 7, 17>>)>>
    /\ build_pc = "merge"
    /\ Len(level_ranges) = 1


\* The key k lies in the interval r of a vector.
InInterval(r, k) ==
    /\ Compare(r.point[0], k) < 0 \/ (Compare(r.point[0], k) = 0 /\ r.include[0])
    /\ Compare(k, r.point[1]) < 0 \/ (Compare(k, r.point[1]) = 0 /\ r.include[1])

\* The key k lies in the Range rg.
InRange(rg, k) ==
    /\ Compare(rg.start, k) < 0 \/ (Compare(rg.start, k) = 0 /\ rg.include_start)
    /\ Compare(k, rg.limit) < 0 \/ (Compare(k, rg.limit) = 0 /\ rg.include_limit)

\* The endpoints of the loaded intervals and of the deleted ranges.
BuildPoints ==
    {LoadInputs(inputs)[x[1]][x[2]].point[x[3]] :
        x \in {y \in (1..Len(LoadInputs(inputs))) \X (1..3) \X {0, 1} :
                  y[2] <= Len(LoadInputs(inputs)[y[1]])}}
    \cup {deleted_range[i].start : i \in 1..Len(deleted_range)}
    \cup {deleted_range[i].limit : i \in 1..Len(deleted_range)}

Loaded(k) ==
    \E i \in 1..Len(LoadInputs(inputs)) :
        \E j \in 1..Len(LoadInputs(inputs)[i]) : InInterval(LoadInputs(inputs)[i][j], k)

Survives(k) ==
    \E i \in 1..Len(level_ranges) :
        \E j \in 1..Len(level_ranges[i]) : InInterval(level_ranges[i][j], k)

InDeletedRange(k) ==
    \E i \in 1..Len(deleted_range) : InRange(deleted_range[i], k)

\* The deleted ranges were cut out of the survivor.
AfterDelete == build_pc = "add" /\ deleted_range # <<>>

\* Claim C36.  The mask interval of a deleted Range whose keys do not carry
\* the maximum sequence number is the Range: from its start, with
\* include_start, to its limit, with include_limit; after the DELETE the
\* survivor covers no key of the deleted ranges and every loaded key outside
\* of them.
C36_MaskIsTheRange ==
    (/\ AfterDelete
     /\ \A i \in 1..Len(deleted_range) :
            ~IsSentinel(deleted_range[i].start) /\ ~IsSentinel(deleted_range[i].limit))
        => /\ \A i \in 1..Len(deleted_range) :
                  /\ MaskRanges(deleted_range)[i].point
                        = Pair(deleted_range[i].start, deleted_range[i].limit)
                  /\ MaskRanges(deleted_range)[i].include
                        = Pair(deleted_range[i].include_start,
                               deleted_range[i].include_limit)
           /\ \A k \in BuildPoints :
                  Survives(k) <=> (Loaded(k) /\ ~InDeletedRange(k))

\* What the code does instead: the mask is the one key `limit` if it is
\* included, so the keys before the limit of a deleted range survive.
C36_OnlyTheLimit ==
    /\ AfterDelete
    /\ inputs = <<CompactionInputFiles(1, <<1>>)>>
    /\ deleted_range
         = <<Range(InternalKey(1, 9, 1), InternalKey(2, 7, 1), TRUE, TRUE)>>
    /\ Survives(InternalKey(1, 9, 1))
    /\ ~Survives(InternalKey(2, 7, 1))


\* The Range Build makes of an interval before it asks IsPrefaceRange
\* (lines 734-735).
RangeOfInterval(r) == Range(r.point[0], r.point[1], r.include[0], r.include[1])

\* The intervals whose start, limit or inclusivity is not that of table n.
OtherIntervals(n) ==
    {r \in [point : {Pair(x[1], x[2]) :
                        x \in {Files[n].smallest, Files[n].largest, InternalKey(2, 5, 1)}
                               \X {Files[n].largest, InternalKey(Files[n].largest.uk, 1, 1),
                                   InternalKey(9, 1, 1)}},
             include : {Pair(x[1], x[2]) : x \in BOOLEAN \X BOOLEAN},
             no_records : {FALSE}, stable : {FALSE},
             dependence : {<<LinkTarget(n, 0)>>}] :
        \/ r.point[0] # Files[n].smallest
        \/ r.point[1] # Files[n].largest
        \/ ~r.include[0]
        \/ ~r.include[1]}

\* Claim C37.  The interval loaded for a data table f, a table whose largest
\* key carries the maximum sequence number among them, is [smallest, largest]
\* with both ends included, the one link {f, 0}, no_records and stable false,
\* and as a Range it is a preface range of f; no range is a preface range of
\* a map table, and none that differs from the bounds of f is one of f.
C37_PrefaceOfFile ==
    build_pc = "merge" =>
        \A n \in InputNumbers(inputs) :
            IF Files[n].purpose = kMapSst
            THEN \A i \in 1..Len(Files[n].elements) :
                    ~IsPrefaceRange(RangeOfInterval(RangeOfElement(Files[n].elements[i])),
                                    Files[n])
            ELSE /\ LoadRangeWithDepend(<<n>>)
                      = <<[point |-> Pair(Files[n].smallest, Files[n].largest),
                           include |-> Pair(TRUE, TRUE),
                           no_records |-> FALSE, stable |-> FALSE,
                           dependence |-> <<LinkTarget(n, 0)>>]>>
                 /\ IsPrefaceRange(RangeOfInterval(LoadRangeWithDepend(<<n>>)[1]), Files[n])
                 /\ \A r \in OtherIntervals(n) :
                        ~IsPrefaceRange(RangeOfInterval(r), Files[n])

\* The same for the tables whose largest key is a key of a record.
C37_ButForSentinel ==
    build_pc = "merge" =>
        \A n \in InputNumbers(inputs) :
            (Files[n].purpose # kMapSst /\ ~IsSentinel(Files[n].largest))
                => /\ LoadRangeWithDepend(<<n>>)
                        = <<[point |-> Pair(Files[n].smallest, Files[n].largest),
                             include |-> Pair(TRUE, TRUE),
                             no_records |-> FALSE, stable |-> FALSE,
                             dependence |-> <<LinkTarget(n, 0)>>]>>
                   /\ IsPrefaceRange(RangeOfInterval(LoadRangeWithDepend(<<n>>)[1]),
                                     Files[n])
                   /\ \A r \in OtherIntervals(n) :
                          ~IsPrefaceRange(RangeOfInterval(r), Files[n])


\* The sweep stands at a left endpoint of one input and a right endpoint of
\* the other.
LeftAgainstRight ==
    /\ pc = "loop"
    /\ ai < Len(ranges_a) /\ bi < Len(ranges_b)
    /\ ab # bb

\* Claim C38.  For non-empty, sorted, non-overlapping A and B the sweep of
\* the partitioner never reaches the default branch of its switch: a left
\* endpoint of one input and a right endpoint of the other never compare
\* equal under CompInclude; put_right is called only while the last output
\* interval is open, so on a non-empty output; and the loop ends when both
\* inputs are consumed, with no interval left open.
C38_NoDefaultBranch ==
    /\ fault \notin {"assert_false", "back_of_empty"}
    /\ LeftAgainstRight => SweepCompare(SweepState) # 0
    /\ pc = "done"
          => /\ ai = Len(ranges_a) /\ bi = Len(ranges_b)
             /\ ab = 0 /\ bb = 0
             /\ \A i \in 1..Len(output) :
                    /\ output[i].point[1] # EmptyKey
                    /\ output[i].dependence # <<>>

\* The sweep has come through a left endpoint of A and a right endpoint of B
\* at the same key, and is done.
C38_Witness ==
    /\ pc = "done"
    /\ output # <<>>
    /\ \E i \in 1..Len(ranges_a), j \in 1..Len(ranges_b) :
           /\ Compare(ranges_a[i].point[0], ranges_b[j].point[1]) = 0
           /\ ranges_a[i].include[0] /\ ranges_b[j].include[1]


\* Lines 238-239: what is asserted of an entry and the next one that begin at
\* the same key.
StartShape(cur, nxt) ==
    /\ cur.include[0] /\ cur.include[1] /\ ~nxt.include[0]
    /\ Compare(cur.point[0], cur.point[1]) = 0

\* Lines 248-249: what is asserted of an entry and the next one that end at
\* the same key.
EndShape(cur, nxt) ==
    /\ ~cur.include[1] /\ nxt.include[0] /\ nxt.include[1]
    /\ Compare(nxt.point[0], nxt.point[1]) = 0

\* Claim C39.  In a vector the element iterator is given, one that the
\* partitioner made or that was loaded from tables, an entry and the next one
\* that begin at the same key are the point [k,k] and an entry that begins
\* at k exclusively, and an entry and the next one that end at the same key
\* are an entry that ends exclusively and the point at that key.
C39_FusionShapes ==
    \A i \in 1..(Len(ranges_) - 1) :
        /\ FuseStart(ranges_[i], ranges_[i + 1]) => StartShape(ranges_[i], ranges_[i + 1])
        /\ FuseEnd(ranges_[i], ranges_[i + 1]) => EndShape(ranges_[i], ranges_[i + 1])


\* An element was made of an entry that ends exclusively and the point after
\* it, out of a vector that also holds a point followed by an entry that
\* begins exclusively at it.
C39_Witness ==
    /\ Emitted /\ Len(consumed) = 2
    /\ FuseEnd(ranges_[consumed[1]], ranges_[consumed[2]])
    /\ \E i \in 1..(Len(ranges_) - 1) : FuseStart(ranges_[i], ranges_[i + 1])


\* The array holds data tables only, two at least.
DataArray ==
    /\ MetaSize >= 2
    /\ \A i \in 1..MetaSize : Files[meta_array_[i]].purpose # kMapSst

\* The element e is the whole of data table n: from its smallest to its
\* largest key, both included, the one link to n, no_records false.
WholeTable(e, n) ==
    /\ e.smallest_key_ = Files[n].smallest /\ e.largest_key_ = Files[n].largest
    /\ e.include_smallest_ /\ e.include_largest_
    /\ ~e.no_records_
    /\ Len(e.link_) = 1 /\ e.link_[1].file_number = n

\* The last two operations were op1 and then op2, each from a valid position
\* to a valid position.
RoundTrip(op1, op2) ==
    /\ Len(history) = 3
    /\ history[1].valid /\ history[2].valid
    /\ history[2].op = op1 /\ history[3].op = op2

\* Claim C33.  Over two or more data tables in key order, SeekToFirst and
\* then Next again and again gives one element for each table, in the order
\* of the tables, each the whole of its table with the one link to it and
\* no_records false, and then the iterator is not valid; SeekToLast and then
\* Prev gives the same elements in the reverse order and then the iterator
\* is not valid; Next and then Prev, or Prev and then Next, from a valid
\* position to a valid position comes back to the same element.
C33_StitchedWalk ==
    DataArray =>
        /\ walk.from = "first"
              => /\ \A j \in 1..Len(walk.elements) :
                        j <= MetaSize /\ WholeTable(walk.elements[j], meta_array_[j])
                 /\ IF Valid(StitchState)
                    THEN /\ array_where_ + 1 = Len(walk.elements)
                         /\ element_ = walk.elements[Len(walk.elements)]
                    ELSE Len(walk.elements) = MetaSize
        /\ walk.from = "last"
              => /\ \A j \in 1..Len(walk.elements) :
                        /\ j <= MetaSize
                        /\ WholeTable(walk.elements[j], meta_array_[MetaSize + 1 - j])
                 /\ IF Valid(StitchState)
                    THEN /\ array_where_ = MetaSize - Len(walk.elements)
                         /\ element_ = walk.elements[Len(walk.elements)]
                    ELSE Len(walk.elements) = MetaSize
        /\ (RoundTrip("Next", "Prev") \/ RoundTrip("Prev", "Next"))
              => /\ history[3].valid
                 /\ history[3].element = history[1].element

\* Four data tables were walked from the last to the first and Prev has
\* left the iterator not valid.
C33_Witness ==
    /\ DataArray /\ MetaSize = 4
    /\ walk.from = "last"
    /\ Len(walk.elements) = 4
    /\ ~Valid(StitchState)

\* Next and then Prev from the second of three data tables.
C33_RoundTrip ==
    /\ DataArray /\ MetaSize = 3
    /\ RoundTrip("Next", "Prev")
    /\ WholeTable(history[1].element, meta_array_[2])
    /\ walk.from = "other"

====
